---- MODULE Spec2Model ----
(***************************************************************************)
(* Model of the input interpreter of go-to-line-improved:                  *)
(*   interpret(input, editor, config) = tokenize -> parse -> interpretTarget*)
(* Strings are sequences of one-character strings.  Indices written `i`    *)
(* are the 0-based indices of the TypeScript source; At(s, i) reads s[i].  *)
(***************************************************************************)
EXTENDS Integers, Sequences, FiniteSets, TLC

\* ------------------------------------------------------------------------
\* Bounds of the model
\* ------------------------------------------------------------------------

\* Longest input string typed into the dialog (pipeline specification).
MaxInputLen == 3

\* Longest input string handed to tokenize alone (tokenizer specification).
MaxTokenizeLen == 4

\* Longest token sequence handed to parse alone (parser specification).
MaxTokens == 5

\* Largest number of lines of a document.
MaxLines == 2

\* Magnitudes of the number tokens handed to parse alone.
TokenMagnitudes == {0, 7}

\* Longest line text handed to interpretColumn alone.
MaxLineLen == 3

\* Largest magnitude of a column term handed to interpretColumn alone.
MaxColumn == 5

\* Most peek() and pop() calls made on a token stream used alone.
MaxCalls == 7

\* Most tokens handed to parse run step by step.
MaxStepTokens == 4

\* Most dialog events (input changes and accepts) of one Controller.show.
MaxEvents == 3

\* ------------------------------------------------------------------------
\* Characters
\* ------------------------------------------------------------------------

\* Characters for which String.prototype.trim() yields the empty string.
Whitespace == {" "}

\* Characters a user types in the pipeline specification.
InputChars == {"0", "1", "2", "-", "+", ",", ".", "h", " ", "x"}

\* Characters handed to tokenize in the tokenizer specification.
TokenizeChars == {"0", "1", "2", "-", "+", ",", ":", ".", "H", "L", "h", "l", " ", "x"}

\* Characters of a document line.
LineChars == {" ", "a"}

\* Texts of document lines.
LineTexts == {<<>>, <<" ", "a", " ">>}

\* All strings over S of length at most n.
Strings(S, n) == UNION {[1..k -> S] : k \in 0..n}

\* input[i] of the source (0-based).
At(s, i) == s[i + 1]

\* ------------------------------------------------------------------------
\* tokenizer/tokenize.ts
\* ------------------------------------------------------------------------

\* toDigit: the characters with a case of their own; every other character
\* takes the default arm and yields undefined (is outside the domain).
toDigit ==
    [c \in {"0", "1", "2", "3", "4", "5", "6", "7", "8", "9"} |->
        CASE c = "0" -> 0 [] c = "1" -> 1 [] c = "2" -> 2 [] c = "3" -> 3
          [] c = "4" -> 4 [] c = "5" -> 5 [] c = "6" -> 6 [] c = "7" -> 7
          [] c = "8" -> 8 [] c = "9" -> 9]

isDigit(char) == char \in DOMAIN toDigit

\* Variant of isWhitespace: the character itself compared with '' (the
\* trim() dropped), which no character of a string satisfies.
isWhitespaceWithoutTrim(char) == char = ""

\* input[i].trim() === ''
isWhitespace(char) == char \in Whitespace

\* The loop that consumes the rest of a number, entered with i at the first
\* digit.  Each round increments i and adds the incremented *index* to ten
\* times the magnitude (`const nextDigit = ++i`).
RECURSIVE consumeNumber(_, _, _)
consumeNumber(input, i, magnitude) ==
    IF (i + 1 < Len(input)) /\ isDigit(At(input, i + 1))
    THEN LET nextDigit == i + 1
         IN  consumeNumber(input, i + 1, (magnitude * 10) + nextDigit)
    ELSE [i |-> i, magnitude |-> magnitude]

\* `undefined` returned by tokenize.
UndefinedTokenStream == [defined |-> FALSE, rawTokens |-> <<>>, i |-> 0]

\* new TokenStream(tokens): the cursor i starts at 0.
TokenStream(tokens) == [defined |-> TRUE, rawTokens |-> tokens, i |-> 0]

\* Variant of tokenizeFrom: the final else skips the character (`continue`)
\* instead of returning undefined.
RECURSIVE tokenizeFromSkippingUnknown(_, _, _)
tokenizeFromSkippingUnknown(input, i, tokens) ==
    IF ~(i < Len(input)) THEN TokenStream(tokens)
    ELSE
    LET c == At(input, i) IN
    IF isWhitespace(c) THEN tokenizeFromSkippingUnknown(input, i + 1, tokens)
    ELSE IF isDigit(c) THEN
        LET r == consumeNumber(input, i, toDigit[c])
        IN  tokenizeFromSkippingUnknown(input, r.i + 1,
                Append(tokens, [kind |-> "number", magnitude |-> r.magnitude]))
    ELSE IF (c = "-") /\ (i + 1 < Len(input)) /\ isDigit(At(input, i + 1)) THEN
        LET r == consumeNumber(input, i + 1, toDigit[At(input, i + 1)])
        IN  tokenizeFromSkippingUnknown(input, r.i + 1,
                Append(tokens, [kind |-> "negativeNumber", magnitude |-> r.magnitude]))
    ELSE IF (c = ",") \/ (c = ":") THEN
        tokenizeFromSkippingUnknown(input, i + 1, Append(tokens, [kind |-> "commaOrColon"]))
    ELSE IF c = "." THEN
        IF (i + 1 < Len(input)) /\ At(input, i + 1) = "."
        THEN tokenizeFromSkippingUnknown(input, i + 2, Append(tokens, [kind |-> "doublePeriod"]))
        ELSE tokenizeFromSkippingUnknown(input, i + 1, Append(tokens, [kind |-> "period"]))
    ELSE IF c \in {"H", "L", "h", "l"} THEN
        tokenizeFromSkippingUnknown(input, i + 1, Append(tokens, [kind |-> c]))
    ELSE tokenizeFromSkippingUnknown(input, i + 1, tokens)

\* Variant of tokenizeFrom: only ',' is a separator, ':' is an unknown
\* character.
RECURSIVE tokenizeFromCommaOnly(_, _, _)
tokenizeFromCommaOnly(input, i, tokens) ==
    IF ~(i < Len(input)) THEN TokenStream(tokens)
    ELSE
    LET c == At(input, i) IN
    IF isWhitespace(c) THEN tokenizeFromCommaOnly(input, i + 1, tokens)
    ELSE IF isDigit(c) THEN
        LET r == consumeNumber(input, i, toDigit[c])
        IN  tokenizeFromCommaOnly(input, r.i + 1,
                Append(tokens, [kind |-> "number", magnitude |-> r.magnitude]))
    ELSE IF (c = "-") /\ (i + 1 < Len(input)) /\ isDigit(At(input, i + 1)) THEN
        LET r == consumeNumber(input, i + 1, toDigit[At(input, i + 1)])
        IN  tokenizeFromCommaOnly(input, r.i + 1,
                Append(tokens, [kind |-> "negativeNumber", magnitude |-> r.magnitude]))
    ELSE IF c = "," THEN
        tokenizeFromCommaOnly(input, i + 1, Append(tokens, [kind |-> "commaOrColon"]))
    ELSE IF c = "." THEN
        IF (i + 1 < Len(input)) /\ At(input, i + 1) = "."
        THEN tokenizeFromCommaOnly(input, i + 2, Append(tokens, [kind |-> "doublePeriod"]))
        ELSE tokenizeFromCommaOnly(input, i + 1, Append(tokens, [kind |-> "period"]))
    ELSE IF c = "H" THEN tokenizeFromCommaOnly(input, i + 1, Append(tokens, [kind |-> "H"]))
    ELSE IF c = "L" THEN tokenizeFromCommaOnly(input, i + 1, Append(tokens, [kind |-> "L"]))
    ELSE IF c = "h" THEN tokenizeFromCommaOnly(input, i + 1, Append(tokens, [kind |-> "h"]))
    ELSE IF c = "l" THEN tokenizeFromCommaOnly(input, i + 1, Append(tokens, [kind |-> "l"]))
    ELSE UndefinedTokenStream

\* Variant of tokenizeFrom: no lookahead after a '.', so every '.' is a
\* period token of its own.
RECURSIVE tokenizeFromWithoutLookahead(_, _, _)
tokenizeFromWithoutLookahead(input, i, tokens) ==
    IF ~(i < Len(input)) THEN TokenStream(tokens)
    ELSE
    LET c == At(input, i) IN
    IF isWhitespace(c) THEN tokenizeFromWithoutLookahead(input, i + 1, tokens)
    ELSE IF isDigit(c) THEN
        LET r == consumeNumber(input, i, toDigit[c])
        IN  tokenizeFromWithoutLookahead(input, r.i + 1,
                Append(tokens, [kind |-> "number", magnitude |-> r.magnitude]))
    ELSE IF (c = "-") /\ (i + 1 < Len(input)) /\ isDigit(At(input, i + 1)) THEN
        LET r == consumeNumber(input, i + 1, toDigit[At(input, i + 1)])
        IN  tokenizeFromWithoutLookahead(input, r.i + 1,
                Append(tokens, [kind |-> "negativeNumber", magnitude |-> r.magnitude]))
    ELSE IF (c = ",") \/ (c = ":") THEN
        tokenizeFromWithoutLookahead(input, i + 1, Append(tokens, [kind |-> "commaOrColon"]))
    ELSE IF c = "." THEN
        tokenizeFromWithoutLookahead(input, i + 1, Append(tokens, [kind |-> "period"]))
    ELSE IF c = "H" THEN tokenizeFromWithoutLookahead(input, i + 1, Append(tokens, [kind |-> "H"]))
    ELSE IF c = "L" THEN tokenizeFromWithoutLookahead(input, i + 1, Append(tokens, [kind |-> "L"]))
    ELSE IF c = "h" THEN tokenizeFromWithoutLookahead(input, i + 1, Append(tokens, [kind |-> "h"]))
    ELSE IF c = "l" THEN tokenizeFromWithoutLookahead(input, i + 1, Append(tokens, [kind |-> "l"]))
    ELSE UndefinedTokenStream

\* One round of the scanning loop of tokenize, at index i with the tokens
\* pushed so far.
RECURSIVE tokenizeFrom(_, _, _)
tokenizeFrom(input, i, tokens) ==
    IF ~(i < Len(input)) THEN TokenStream(tokens)
    ELSE
    LET c == At(input, i) IN
    IF isWhitespace(c) THEN tokenizeFrom(input, i + 1, tokens)
    ELSE IF isDigit(c) THEN
        LET r == consumeNumber(input, i, toDigit[c])
        IN  tokenizeFrom(input, r.i + 1,
                Append(tokens, [kind |-> "number", magnitude |-> r.magnitude]))
    ELSE IF (c = "-") /\ (i + 1 < Len(input)) /\ isDigit(At(input, i + 1)) THEN
        LET r == consumeNumber(input, i + 1, toDigit[At(input, i + 1)])
        IN  tokenizeFrom(input, r.i + 1,
                Append(tokens, [kind |-> "negativeNumber", magnitude |-> r.magnitude]))
    ELSE IF (c = ",") \/ (c = ":") THEN
        tokenizeFrom(input, i + 1, Append(tokens, [kind |-> "commaOrColon"]))
    ELSE IF c = "." THEN
        IF (i + 1 < Len(input)) /\ At(input, i + 1) = "."
        THEN tokenizeFrom(input, i + 2, Append(tokens, [kind |-> "doublePeriod"]))
        ELSE tokenizeFrom(input, i + 1, Append(tokens, [kind |-> "period"]))
    ELSE IF c = "H" THEN tokenizeFrom(input, i + 1, Append(tokens, [kind |-> "H"]))
    ELSE IF c = "L" THEN tokenizeFrom(input, i + 1, Append(tokens, [kind |-> "L"]))
    ELSE IF c = "h" THEN tokenizeFrom(input, i + 1, Append(tokens, [kind |-> "h"]))
    ELSE IF c = "l" THEN tokenizeFrom(input, i + 1, Append(tokens, [kind |-> "l"]))
    ELSE UndefinedTokenStream

tokenize(input) == tokenizeFrom(input, 0, <<>>)

\* ------------------------------------------------------------------------
\* tokenizer/token-stream.ts
\* ------------------------------------------------------------------------

EOF == [kind |-> "EOF"]

\* peek(): the foremost token, or EOF when exhausted; the cursor is untouched.
peek(tokenStream) ==
    IF tokenStream.i < Len(tokenStream.rawTokens)
    THEN tokenStream.rawTokens[tokenStream.i + 1]
    ELSE EOF

\* Variant of pop: the cursor is advanced (`this.i++`) without the test
\* against rawTokens.length.
popPastEnd(tokenStream) ==
    [token       |-> IF tokenStream.i < Len(tokenStream.rawTokens)
                     THEN tokenStream.rawTokens[tokenStream.i + 1]
                     ELSE EOF,
     tokenStream |-> [tokenStream EXCEPT !.i = @ + 1]]

\* pop(): the token peek() would return, and the stream after `this.i++`
\* (unchanged when exhausted).
pop(tokenStream) ==
    IF tokenStream.i < Len(tokenStream.rawTokens)
    THEN [token       |-> tokenStream.rawTokens[tokenStream.i + 1],
          tokenStream |-> [tokenStream EXCEPT !.i = @ + 1]]
    ELSE [token |-> EOF, tokenStream |-> tokenStream]

hasTokensRemaining(tokenStream) == tokenStream.i < Len(tokenStream.rawTokens)

\* ------------------------------------------------------------------------
\* parser/result.ts.  The token stream is a mutable object in the source;
\* here every parse function returns, next to its Result, the stream as it
\* left it.
\* ------------------------------------------------------------------------

Ok(value, tokenStream) == [ok |-> TRUE, value |-> value, tokenStream |-> tokenStream]

Err(tokenStream) == [ok |-> FALSE, tokenStream |-> tokenStream]

andThen(result, transform(_)) ==
    IF result.ok THEN Ok(transform(result.value), result.tokenStream)
    ELSE Err(result.tokenStream)

\* ------------------------------------------------------------------------
\* parser/parse.ts
\* ------------------------------------------------------------------------

\* `undefined` where the source has `VarColumn | undefined`,
\* `VarRangeEnd | undefined` or `VarTarget | undefined`.
UndefinedVar == [kind |-> "undefined"]

\* Variant of parseColumn: a separator that no number follows is taken as
\* the column H instead of an error.
parseColumnLoneSeparator(tokenStream) ==
    LET first == pop(tokenStream) IN
    CASE first.token.kind = "commaOrColon" ->
            LET next == pop(first.tokenStream) IN
            IF next.token.kind = "number"
            THEN Ok([kind |-> "number", value |-> next.token.magnitude], next.tokenStream)
            ELSE Ok([kind |-> "H"], first.tokenStream)
      [] first.token.kind = "H" -> Ok([kind |-> "H"], first.tokenStream)
      [] first.token.kind = "L" -> Ok([kind |-> "L"], first.tokenStream)
      [] first.token.kind = "h" -> Ok([kind |-> "h"], first.tokenStream)
      [] first.token.kind = "l" -> Ok([kind |-> "l"], first.tokenStream)
      [] OTHER -> Err(first.tokenStream)

parseColumn(tokenStream) ==
    LET first == pop(tokenStream) IN
    CASE first.token.kind = "commaOrColon" ->
            LET next == pop(first.tokenStream) IN
            IF next.token.kind = "number"
            THEN Ok([kind |-> "number", value |-> next.token.magnitude], next.tokenStream)
            ELSE Err(next.tokenStream)
      [] first.token.kind = "H" -> Ok([kind |-> "H"], first.tokenStream)
      [] first.token.kind = "L" -> Ok([kind |-> "L"], first.tokenStream)
      [] first.token.kind = "h" -> Ok([kind |-> "h"], first.tokenStream)
      [] first.token.kind = "l" -> Ok([kind |-> "l"], first.tokenStream)
      [] OTHER -> Err(first.tokenStream)

parseOptionalColumn(tokenStream) ==
    CASE peek(tokenStream).kind \in {"commaOrColon", "H", "L", "h", "l"} ->
            parseColumn(tokenStream)
      [] peek(tokenStream).kind \in {"period", "doublePeriod", "EOF"} ->
            Ok(UndefinedVar, tokenStream)
      [] OTHER -> Err(tokenStream)

\* The line node carries the kind of the token it was built from.
parseLine(tokenStream) ==
    LET next == pop(tokenStream) IN
    CASE next.token.kind = "number" ->
            Ok([kind |-> "number", value |-> next.token.magnitude], next.tokenStream)
      [] next.token.kind = "negativeNumber" ->
            Ok([kind |-> "negativeNumber", value |-> next.token.magnitude], next.tokenStream)
      [] OTHER -> Err(next.tokenStream)

parsePosition(tokenStream) ==
    CASE peek(tokenStream).kind \in {"number", "negativeNumber"} ->
            LET lineResult == parseLine(tokenStream) IN
            IF lineResult.ok
            THEN LET columnResult == parseOptionalColumn(lineResult.tokenStream) IN
                 IF columnResult.ok
                 THEN Ok([kind   |-> "lineWithOptionalColumn",
                          line   |-> lineResult.value,
                          column |-> columnResult.value], columnResult.tokenStream)
                 ELSE Err(columnResult.tokenStream)
            ELSE Err(lineResult.tokenStream)
      [] peek(tokenStream).kind \in {"commaOrColon", "H", "L", "h", "l"} ->
            andThen(parseColumn(tokenStream),
                    LAMBDA varColumn : [kind |-> "columnOnly", column |-> varColumn])
      [] OTHER -> Err(tokenStream)

parseRangeEnd(tokenStream) ==
    LET first == pop(tokenStream) IN
    CASE first.token.kind = "period" ->
            andThen(parsePosition(first.tokenStream),
                    LAMBDA positionVar : [kind |-> "period", position |-> positionVar])
      [] first.token.kind = "doublePeriod" ->
            andThen(parsePosition(first.tokenStream),
                    LAMBDA positionVar : [kind |-> "doublePeriod", position |-> positionVar])
      [] OTHER -> Err(first.tokenStream)

parseOptionalRangeEnd(tokenStream) ==
    CASE peek(tokenStream).kind \in {"period", "doublePeriod"} ->
            parseRangeEnd(tokenStream)
      [] peek(tokenStream).kind = "EOF" -> Ok(UndefinedVar, tokenStream)
      [] OTHER -> Err(tokenStream)

parseTarget(tokenStream) ==
    CASE peek(tokenStream).kind
            \in {"number", "negativeNumber", "commaOrColon", "H", "L", "h", "l"} ->
            LET start == parsePosition(tokenStream) IN
            IF start.ok
            THEN LET end == parseOptionalRangeEnd(start.tokenStream) IN
                 IF end.ok
                 THEN Ok([kind  |-> "startWithOptionalRangeEnd",
                          start |-> start.value,
                          end   |-> end.value], end.tokenStream)
                 ELSE Err(end.tokenStream)
            ELSE Err(start.tokenStream)
      [] peek(tokenStream).kind \in {"period", "doublePeriod"} ->
            andThen(parseRangeEnd(tokenStream),
                    LAMBDA varRangeEnd : [kind |-> "rangeEndOnly", end |-> varRangeEnd])
      [] OTHER -> Err(tokenStream)

\* Variant of parse: the hasTokensRemaining() test left out.
parseWithoutRemainingCheck(tokenStream) ==
    LET targetResult == parseTarget(tokenStream) IN
    IF ~targetResult.ok
    THEN [syntaxTree |-> UndefinedVar, tokenStream |-> targetResult.tokenStream]
    ELSE [syntaxTree |-> targetResult.value, tokenStream |-> targetResult.tokenStream]

\* parse: the syntax tree (or undefined) and the stream as parsing left it.
parse(tokenStream) ==
    LET targetResult == parseTarget(tokenStream) IN
    IF hasTokensRemaining(targetResult.tokenStream) \/ ~targetResult.ok
    THEN [syntaxTree |-> UndefinedVar, tokenStream |-> targetResult.tokenStream]
    ELSE [syntaxTree |-> targetResult.value, tokenStream |-> targetResult.tokenStream]

\* ------------------------------------------------------------------------
\* The parts of the editor that interpret.ts reads: editor.document (a
\* sequence of line texts) and editor.selection (anchor and active).
\* ------------------------------------------------------------------------

\* new Position(line, character).  A coordinate is a Number: a value, or
\* `undefined` when the function that computed it returned nothing.
Position(line, character) == [line |-> line, character |-> character]

\* new Selection(anchor, active)
Selection(anchor, active) == [anchor |-> anchor, active |-> active]

\* A number, or the `undefined` a function yields when no case of its switch
\* matches and control runs off its end.
Number(n) == [defined |-> TRUE, value |-> n]

UndefinedNumber == [defined |-> FALSE]

\* editor.document.lineAt(line): the TextLine of a line index.  The editor
\* raises an error for an argument that is not the index of a line.
lineAt(document, line) ==
    IF line.defined /\ line.value >= 0 /\ line.value < Len(document)
    THEN [thrown     |-> FALSE,
          lineNumber |-> line.value,
          text       |-> document[line.value + 1],
          range      |-> [start |-> Position(line, Number(0)),
                          end   |-> Position(line, Number(Len(document[line.value + 1])))]]
    ELSE [thrown |-> TRUE]

\* ------------------------------------------------------------------------
\* interpreter/interpret.ts
\* ------------------------------------------------------------------------

RECURSIVE firstNonWhitespaceFrom(_, _)
firstNonWhitespaceFrom(str, i) ==
    IF ~(i < Len(str)) THEN 0
    ELSE IF ~isWhitespace(At(str, i)) THEN i
    ELSE firstNonWhitespaceFrom(str, i + 1)

\* Defaults to 0 if str is all whitespace.
firstNonWhitespaceCharacterIndex(str) == firstNonWhitespaceFrom(str, 0)

RECURSIVE onePastLastNonWhitespaceFrom(_, _)
onePastLastNonWhitespaceFrom(str, i) ==
    IF ~(i >= 0) THEN 0
    ELSE IF ~isWhitespace(At(str, i)) THEN i + 1
    ELSE onePastLastNonWhitespaceFrom(str, i - 1)

\* The backward scan started one character too early.
onePastLastNonWhitespaceCharacterIndexSkippingLast(str) ==
    onePastLastNonWhitespaceFrom(str, Len(str) - 2)

\* Defaults to 0 if str is all whitespace.
onePastLastNonWhitespaceCharacterIndex(str) ==
    onePastLastNonWhitespaceFrom(str, Len(str) - 1)

\* interpretColumn without the clamp of a number into [0, lineEndInd].
interpretColumnWithoutClamp(varColumn, targetLine) ==
    LET lineText   == targetLine.text
        lineEndInd == targetLine.range.end.character.value
    IN
    CASE varColumn.kind = "number" -> Number(varColumn.value - 1)
      [] varColumn.kind = "H" -> Number(0)
      [] varColumn.kind = "L" -> Number(lineEndInd)
      [] varColumn.kind = "h" -> Number(firstNonWhitespaceCharacterIndex(lineText))
      [] varColumn.kind = "l" -> Number(onePastLastNonWhitespaceCharacterIndex(lineText))
      [] OTHER -> UndefinedNumber

\* interpretColumn: a COLUMN variable to a 0-based column index of targetLine.
interpretColumn(varColumn, targetLine) ==
    LET lineText   == targetLine.text
        lineEndInd == targetLine.range.end.character.value
    IN
    CASE varColumn.kind = "number" ->
            LET ind == varColumn.value - 1 IN
            Number(IF ind < 0 THEN 0 ELSE IF ind > lineEndInd THEN lineEndInd ELSE ind)
      [] varColumn.kind = "H" -> Number(0)
      [] varColumn.kind = "L" -> Number(lineEndInd)
      [] varColumn.kind = "h" -> Number(firstNonWhitespaceCharacterIndex(lineText))
      [] varColumn.kind = "l" -> Number(onePastLastNonWhitespaceCharacterIndex(lineText))
      [] OTHER -> UndefinedNumber

\* round of interpretLine: clamp into [0, documentEndInd].
round(ind, documentEndInd) ==
    IF ind < 0 THEN 0 ELSE IF ind > documentEndInd THEN documentEndInd ELSE ind

\* interpretLine: a LINE variable to a 0-based line index.  The switch has
\* the cases 'numberOnly' and 'minusPrefix' and no default.
interpretLine(varLine, document) ==
    LET documentEndInd == Len(document) - 1 IN
    CASE varLine.kind = "numberOnly" ->
            Number(round(varLine.value - 1, documentEndInd))
      [] varLine.kind = "minusPrefix" ->
            Number(round(documentEndInd - varLine.value, documentEndInd))
      [] OTHER -> UndefinedNumber

convertColumnDefaultsTo(config) ==
    CASE config.columnDefaultsTo = "startOfLine" -> [kind |-> "H"]
      [] config.columnDefaultsTo = "endOfLine" -> [kind |-> "L"]
      [] config.columnDefaultsTo = "firstNonWhitespaceCharacterOfLine" -> [kind |-> "h"]
      [] config.columnDefaultsTo = "onePastLastNonWhitespaceCharacterOfLine" -> [kind |-> "l"]

\* An error raised by the editor leaves the interpreter as an exception.
Thrown == [thrown |-> TRUE]

\* interpretPosition with the line of a column-only position taken from the
\* anchor of the primary selection.
interpretPositionFromAnchor(varPosition, editor, config) ==
    CASE varPosition.kind = "lineWithOptionalColumn" ->
            LET lineInd    == interpretLine(varPosition.line, editor.document)
                targetLine == lineAt(editor.document, lineInd)
            IN  IF targetLine.thrown THEN Thrown
                ELSE [thrown   |-> FALSE,
                      position |-> Position(lineInd,
                          interpretColumn(
                              IF varPosition.column # UndefinedVar
                              THEN varPosition.column
                              ELSE convertColumnDefaultsTo(config),
                              targetLine))]
      [] varPosition.kind = "columnOnly" ->
            LET cursorLineInd == editor.selection.anchor.line
                targetLine    == lineAt(editor.document, cursorLineInd)
            IN  IF targetLine.thrown THEN Thrown
                ELSE [thrown   |-> FALSE,
                      position |-> Position(cursorLineInd,
                          interpretColumn(varPosition.column, targetLine))]

\* interpretPosition: a POSITION variable to a Position of the document.
interpretPosition(varPosition, editor, config) ==
    CASE varPosition.kind = "lineWithOptionalColumn" ->
            LET lineInd    == interpretLine(varPosition.line, editor.document)
                targetLine == lineAt(editor.document, lineInd)
            IN  IF targetLine.thrown THEN Thrown
                ELSE [thrown   |-> FALSE,
                      position |-> Position(lineInd,
                          interpretColumn(
                              IF varPosition.column # UndefinedVar
                              THEN varPosition.column
                              ELSE convertColumnDefaultsTo(config),
                              targetLine))]
      [] varPosition.kind = "columnOnly" ->
            LET cursorLineInd == editor.selection.active.line
                targetLine    == lineAt(editor.document, cursorLineInd)
            IN  IF targetLine.thrown THEN Thrown
                ELSE [thrown   |-> FALSE,
                      position |-> Position(cursorLineInd,
                          interpretColumn(varPosition.column, targetLine))]

\* interpretRangeEnd: the end Position and whether the selection is quick.
interpretRangeEnd(varRangeEnd, editor, config) ==
    LET end == interpretPosition(varRangeEnd.position, editor, config) IN
    IF end.thrown THEN Thrown
    ELSE CASE varRangeEnd.kind = "period" ->
                [thrown |-> FALSE, end |-> end.position, quick |-> TRUE]
           [] varRangeEnd.kind = "doublePeriod" ->
                [thrown |-> FALSE, end |-> end.position, quick |-> FALSE]

\* quickSelection that takes the forward branch only when end is on a
\* strictly greater line.
quickSelectionStrictlyForward(start, end, editor) ==
    LET startLine == lineAt(editor.document, start.line)
        endLine   == lineAt(editor.document, end.line)
    IN  IF endLine.lineNumber > startLine.lineNumber
        THEN Selection(startLine.range.start, endLine.range.end)
        ELSE Selection(startLine.range.end, endLine.range.start)

\* quickSelection that always takes the forward branch.
quickSelectionAlwaysForward(start, end, editor) ==
    LET startLine == lineAt(editor.document, start.line)
        endLine   == lineAt(editor.document, end.line)
    IN  Selection(startLine.range.start, endLine.range.end)

\* quickSelection that does not expand the selection to whole lines.
quickSelectionWithoutExpansion(start, end, editor) == Selection(start, end)

\* quickSelection: the selection covering the lines of start and end.
quickSelection(start, end, editor) ==
    LET startLine == lineAt(editor.document, start.line)
        endLine   == lineAt(editor.document, end.line)
    IN  IF endLine.lineNumber >= startLine.lineNumber
        THEN Selection(startLine.range.start, endLine.range.end)
        ELSE Selection(startLine.range.end, endLine.range.start)

\* The target built from a start Position and an interpreted range end.
selectionTarget(start, rangeEnd, editor) ==
    [kind      |-> "selection",
     selection |-> IF rangeEnd.quick
                   THEN quickSelection(start, rangeEnd.end, editor)
                   ELSE Selection(start, rangeEnd.end),
     quick     |-> rangeEnd.quick]

\* The interpreter left by an exception: no Target is returned.
ThrownTarget == [kind |-> "thrown"]

\* `undefined` returned by interpret.
UndefinedTarget == [kind |-> "undefined"]

interpretTarget(varTarget, editor, config) ==
    CASE varTarget.kind = "startWithOptionalRangeEnd" ->
            LET start == interpretPosition(varTarget.start, editor, config) IN
            IF start.thrown THEN ThrownTarget
            ELSE IF varTarget.end # UndefinedVar
            THEN LET rangeEnd == interpretRangeEnd(varTarget.end, editor, config) IN
                 IF rangeEnd.thrown THEN ThrownTarget
                 ELSE selectionTarget(start.position, rangeEnd, editor)
            ELSE [kind |-> "goTo", position |-> start.position]
      [] varTarget.kind = "rangeEndOnly" ->
            LET cursor   == editor.selection.active
                rangeEnd == interpretRangeEnd(varTarget.end, editor, config)
            IN  IF rangeEnd.thrown THEN ThrownTarget
                ELSE selectionTarget(cursor, rangeEnd, editor)

\* interpret: the whole pipeline as a function of the input.
interpret(input, editor, config) ==
    LET tokenStream == tokenize(input) IN
    IF ~tokenStream.defined THEN UndefinedTarget
    ELSE LET syntaxTree == parse(tokenStream).syntaxTree IN
         IF syntaxTree = UndefinedVar THEN UndefinedTarget
         ELSE interpretTarget(syntaxTree, editor, config)

\* ------------------------------------------------------------------------
\* State
\* ------------------------------------------------------------------------

VARIABLES
    input,        \* the string handed to interpret / tokenize
    editor,       \* the active editor: its document and primary selection
    config,       \* the configuration snapshot
    tokenStream,  \* the TokenStream tokenize returned (rawTokens and cursor i)
    syntaxTree,   \* the VarTarget parse returned
    target,       \* the Target interpret returned
    pc,           \* the stage of interpret (or the function called) that runs next
    varColumn,    \* interpretColumn called alone: its COLUMN variable,
    targetLine,   \*   its TextLine
    columnInd,    \*   and the column index it returned
    startPos,     \* quickSelection called alone: its start Position,
    endPos,       \*   its end Position
    quickSel,     \*   and the Selection it returned
    stack,        \* parse run step by step: the frames of the parse functions
                  \*   that have been called and have not returned yet,
    ret,          \*   the Result the last function to return has returned
    log,          \* the calls made so far: peek() and pop() on the token stream,
                  \*   or the calls and timeouts of the class used alone
    controller,   \* one Controller.show: its delayer, highlighter and dialog,
                  \*   and the editor's viewport
    delayer,      \* a Delayer used alone, and the timeouts setTimeout has pending
    revealer,     \* a Revealer used alone, with the viewport of its editor
    finiteAutomation  \* a FiniteAutomation: its current state and its intent

\* The variables of the functions called alone.
callVars == <<varColumn, targetLine, columnInd, startPos, endPos, quickSel>>

\* The variables of parse run step by step and of the calls logged so far.
parserVars == <<stack, ret, log>>

\* The variables of the classes used alone.
classVars == <<delayer, revealer, finiteAutomation>>

vars ==
    <<input, editor, config, tokenStream, syntaxTree, target, pc, callVars, parserVars,
      controller, classVars>>

\* Documents of 1..MaxLines lines.
Documents == UNION {[1..n -> LineTexts] : n \in 1..MaxLines}

\* The positions inside a document.
PositionsOf(document) ==
    UNION {{Position(Number(l), Number(c)) : c \in 0..Len(document[l + 1])} :
        l \in 0..(Len(document) - 1)}

\* Editors whose primary selection is an empty selection (a plain cursor).
Editors ==
    UNION {{[document |-> d, selection |-> Selection(p, p)] : p \in PositionsOf(d)} :
        d \in Documents}

COLUMN_DEFAULTS_TO ==
    {"startOfLine", "endOfLine", "firstNonWhitespaceCharacterOfLine",
     "onePastLastNonWhitespaceCharacterOfLine"}

Configs == {[columnDefaultsTo |-> c] : c \in COLUMN_DEFAULTS_TO}

\* An editor and configuration for the specifications that do not read them.
SomeEditor ==
    [document |-> <<<<" ", "a", " ">>>>,
     selection |-> Selection(Position(Number(0), Number(0)), Position(Number(0), Number(0)))]

SomeConfig == [columnDefaultsTo |-> "firstNonWhitespaceCharacterOfLine"]

\* No function is called alone: its arguments and result are `undefined`.
NoCall ==
    /\ varColumn = UndefinedVar
    /\ targetLine = UndefinedVar
    /\ columnInd = UndefinedNumber
    /\ startPos = UndefinedVar
    /\ endPos = UndefinedVar
    /\ quickSel = UndefinedVar

\* parse is not run step by step and no call of the token stream is logged.
NoParser ==
    /\ stack = <<>>
    /\ ret = UndefinedVar
    /\ log = <<>>

\* No Controller.show is running.
NoController == controller = UndefinedVar

\* No class is used alone.
NoClass ==
    /\ delayer = UndefinedVar
    /\ revealer = UndefinedVar
    /\ finiteAutomation = UndefinedVar

\* interpret is not running.
NoInterpret ==
    /\ input = <<>>
    /\ config = SomeConfig
    /\ tokenStream = UndefinedTokenStream
    /\ syntaxTree = UndefinedVar
    /\ target = UndefinedTarget

\* ------------------------------------------------------------------------
\* The stages of interpret (interpret.ts, lines 28-45)
\* ------------------------------------------------------------------------

\* Variant of Tokenize: the `return undefined` after a failed tokenize left
\* out, so that parse runs next.
TokenizeWithoutReturn ==
    /\ pc = "tokenize"
    /\ tokenStream' = tokenize(input)
    /\ target' = target
    /\ pc' = "parse"
    /\ UNCHANGED <<input, editor, config, syntaxTree, callVars, parserVars, controller, classVars>>

\* const tokenStream = tokenize(input); if (!tokenStream) return undefined;
Tokenize ==
    /\ pc = "tokenize"
    /\ tokenStream' = tokenize(input)
    /\ IF ~tokenStream'.defined
       THEN target' = UndefinedTarget /\ pc' = "done"
       ELSE target' = target /\ pc' = "parse"
    /\ UNCHANGED <<input, editor, config, syntaxTree, callVars, parserVars, controller, classVars>>

\* const syntaxTree = parse(tokenStream); if (!syntaxTree) return undefined;
Parse ==
    /\ pc = "parse"
    /\ LET parsed == parse(tokenStream) IN
        /\ syntaxTree' = parsed.syntaxTree
        /\ tokenStream' = parsed.tokenStream
        /\ IF parsed.syntaxTree = UndefinedVar
           THEN target' = UndefinedTarget /\ pc' = "done"
           ELSE target' = target /\ pc' = "interpretTarget"
    /\ UNCHANGED <<input, editor, config, callVars, parserVars, controller, classVars>>

\* return interpretTarget(syntaxTree, editor, config);
InterpretTarget ==
    /\ pc = "interpretTarget"
    /\ target' = interpretTarget(syntaxTree, editor, config)
    /\ pc' = "done"
    /\ UNCHANGED <<input, editor, config, tokenStream, syntaxTree, callVars, parserVars, controller, classVars>>

\* The state when interpret is entered.
Init ==
    /\ input \in Strings(InputChars, MaxInputLen)
    /\ editor \in Editors
    /\ config \in Configs
    /\ tokenStream = UndefinedTokenStream
    /\ syntaxTree = UndefinedVar
    /\ target = UndefinedTarget
    /\ pc = "tokenize"
    /\ NoCall
    /\ NoParser
    /\ NoController
    /\ NoClass

Next == Tokenize \/ Parse \/ InterpretTarget

Spec == Init /\ [][Next]_vars

\* tokenize alone, on strings over the larger character set.
InitTokenize ==
    /\ input \in Strings(TokenizeChars, MaxTokenizeLen)
    /\ editor = SomeEditor
    /\ config = SomeConfig
    /\ tokenStream = UndefinedTokenStream
    /\ syntaxTree = UndefinedVar
    /\ target = UndefinedTarget
    /\ pc = "tokenize"
    /\ NoCall
    /\ NoParser
    /\ NoController
    /\ NoClass

NextTokenize == Tokenize

SpecTokenize == InitTokenize /\ [][NextTokenize]_vars

\* interpret on every input string, in one editor: what tokenize and parse
\* make of an input does not depend on the editor or the configuration.
InitInputs ==
    /\ input \in Strings(InputChars, MaxInputLen)
    /\ editor = SomeEditor
    /\ config = SomeConfig
    /\ tokenStream = UndefinedTokenStream
    /\ syntaxTree = UndefinedVar
    /\ target = UndefinedTarget
    /\ pc = "tokenize"
    /\ NoCall
    /\ NoParser
    /\ NoController
    /\ NoClass

SpecInputs == InitInputs /\ [][Next]_vars

\* parse alone, on token sequences.  Every sequence of tokens other than EOF
\* is the output of tokenize for some input (tokens separated by spaces).
Tokens ==
    {[kind |-> "number", magnitude |-> m] : m \in TokenMagnitudes} \cup
    {[kind |-> "negativeNumber", magnitude |-> m] : m \in TokenMagnitudes} \cup
    {[kind |-> k] : k \in {"commaOrColon", "period", "doublePeriod", "H", "L", "h", "l"}}

InitParse ==
    /\ input = <<>>
    /\ editor = SomeEditor
    /\ config = SomeConfig
    /\ \E n \in 0..MaxTokens :
         \E tokens \in [1..n -> Tokens] : tokenStream = TokenStream(tokens)
    /\ syntaxTree = UndefinedVar
    /\ target = UndefinedTarget
    /\ pc = "parse"
    /\ NoCall
    /\ NoParser
    /\ NoController
    /\ NoClass

NextParse == Parse

SpecParse == InitParse /\ [][NextParse]_vars

\* interpret in editors whose primary selection may be non-empty (anchor and
\* active anywhere in the document), on strings over a smaller character set.
SelectionChars == {".", ":", "1", "h"}

SelectionEditors ==
    UNION {{[document |-> d, selection |-> Selection(anchor, active)] :
                anchor \in PositionsOf(d), active \in PositionsOf(d)} :
        d \in Documents}

InitSelection ==
    /\ input \in Strings(SelectionChars, MaxInputLen)
    /\ editor \in SelectionEditors
    /\ config \in Configs
    /\ tokenStream = UndefinedTokenStream
    /\ syntaxTree = UndefinedVar
    /\ target = UndefinedTarget
    /\ pc = "tokenize"
    /\ NoCall
    /\ NoParser
    /\ NoController
    /\ NoClass

SpecSelection == InitSelection /\ [][Next]_vars

\* interpretColumn alone, on the COLUMN variables parseColumn builds and the
\* lines of one-line documents.
VarColumns ==
    {[kind |-> "number", value |-> m] : m \in 0..MaxColumn} \cup
    {[kind |-> k] : k \in {"H", "L", "h", "l"}}

InterpretColumn ==
    /\ pc = "interpretColumn"
    /\ columnInd' = interpretColumn(varColumn, targetLine)
    /\ pc' = "done"
    /\ UNCHANGED <<input, editor, config, tokenStream, syntaxTree, target,
                   varColumn, targetLine, startPos, endPos, quickSel, parserVars, controller, classVars>>

InitColumn ==
    /\ NoInterpret
    /\ NoParser
    /\ NoController
    /\ NoClass
    /\ editor = SomeEditor
    /\ pc = "interpretColumn"
    /\ varColumn \in VarColumns
    /\ \E text \in Strings(LineChars, MaxLineLen) :
            targetLine = lineAt(<<text>>, Number(0))
    /\ columnInd = UndefinedNumber
    /\ startPos = UndefinedVar
    /\ endPos = UndefinedVar
    /\ quickSel = UndefinedVar

NextColumn == InterpretColumn

SpecColumn == InitColumn /\ [][NextColumn]_vars

\* quickSelection alone, on every pair of positions of the document.
QuickSelection ==
    /\ pc = "quickSelection"
    /\ quickSel' = quickSelection(startPos, endPos, editor)
    /\ pc' = "done"
    /\ UNCHANGED <<input, editor, config, tokenStream, syntaxTree, target,
                   varColumn, targetLine, columnInd, startPos, endPos, parserVars, controller, classVars>>

InitQuick ==
    /\ NoInterpret
    /\ NoParser
    /\ NoController
    /\ NoClass
    /\ \E d \in Documents : editor = [SomeEditor EXCEPT !.document = d]
    /\ pc = "quickSelection"
    /\ startPos \in PositionsOf(editor.document)
    /\ endPos \in PositionsOf(editor.document)
    /\ varColumn = UndefinedVar
    /\ targetLine = UndefinedVar
    /\ columnInd = UndefinedNumber
    /\ quickSel = UndefinedVar

NextQuick == QuickSelection

SpecQuick == InitQuick /\ [][NextQuick]_vars

\* A token stream used alone: any caller, any sequence of peek() and pop().
StreamTokens == {t \in Tokens : t.kind \in {"H", "period"}}

\* tokenStream.peek(): the call and the token it returned are logged.
Peek ==
    /\ pc = "tokenStream"
    /\ Len(log) < MaxCalls
    /\ log' = Append(log, [op |-> "peek", token |-> peek(tokenStream)])
    /\ UNCHANGED <<input, editor, config, tokenStream, syntaxTree, target, pc,
                   callVars, stack, ret, controller, classVars>>

\* tokenStream.pop(): the call and the token it returned are logged.
Pop ==
    /\ pc = "tokenStream"
    /\ Len(log) < MaxCalls
    /\ log' = Append(log, [op |-> "pop", token |-> pop(tokenStream).token])
    /\ tokenStream' = pop(tokenStream).tokenStream
    /\ UNCHANGED <<input, editor, config, syntaxTree, target, pc, callVars, stack, ret, controller, classVars>>

InitTokenStream ==
    /\ input = <<>>
    /\ editor = SomeEditor
    /\ config = SomeConfig
    /\ \E n \in 0..MaxTokens : \E tokens \in [1..n -> StreamTokens] :
            tokenStream = TokenStream(tokens)
    /\ syntaxTree = UndefinedVar
    /\ target = UndefinedTarget
    /\ pc = "tokenStream"
    /\ NoCall
    /\ NoParser
    /\ NoController
    /\ NoClass

NextTokenStream == Peek \/ Pop

SpecTokenStream == InitTokenStream /\ [][NextTokenStream]_vars

\* ------------------------------------------------------------------------
\* parser/parse.ts run step by step.  `stack` holds one frame per active call
\* (the function, the point it has reached, and the value it keeps in a local
\* constant), `ret` the Result the last returning function handed to its
\* caller, `log` the peek() and pop() calls made on the token stream.
\* ------------------------------------------------------------------------

\* The case labels of the switch of each parse function, per production.
caseLabelsWithoutPeriod ==
    [parseTarget           |-> [position |-> {"number", "negativeNumber", "commaOrColon",
                                              "H", "L", "h", "l"},
                                rangeEnd |-> {"period", "doublePeriod"}],
     parseOptionalRangeEnd |-> [rangeEnd |-> {"period", "doublePeriod"},
                                empty    |-> {"EOF"}],
     parseRangeEnd         |-> [period       |-> {"period"},
                                doublePeriod |-> {"doublePeriod"}],
     parsePosition         |-> [line   |-> {"number", "negativeNumber"},
                                column |-> {"commaOrColon", "H", "L", "h", "l"}],
     parseLine             |-> [number         |-> {"number"},
                                negativeNumber |-> {"negativeNumber"}],
     parseOptionalColumn   |-> [column |-> {"commaOrColon", "H", "L", "h", "l"},
                                empty  |-> {"doublePeriod", "EOF"}],
     parseColumn           |-> [number |-> {"commaOrColon"},
                                H      |-> {"H"},
                                L      |-> {"L"},
                                h      |-> {"h"},
                                l      |-> {"l"}]]

caseLabels ==
    [parseTarget           |-> [position |-> {"number", "negativeNumber", "commaOrColon",
                                              "H", "L", "h", "l"},
                                rangeEnd |-> {"period", "doublePeriod"}],
     parseOptionalRangeEnd |-> [rangeEnd |-> {"period", "doublePeriod"},
                                empty    |-> {"EOF"}],
     parseRangeEnd         |-> [period       |-> {"period"},
                                doublePeriod |-> {"doublePeriod"}],
     parsePosition         |-> [line   |-> {"number", "negativeNumber"},
                                column |-> {"commaOrColon", "H", "L", "h", "l"}],
     parseLine             |-> [number         |-> {"number"},
                                negativeNumber |-> {"negativeNumber"}],
     parseOptionalColumn   |-> [column |-> {"commaOrColon", "H", "L", "h", "l"},
                                empty  |-> {"period", "doublePeriod", "EOF"}],
     parseColumn           |-> [number |-> {"commaOrColon"},
                                H      |-> {"H"},
                                L      |-> {"L"},
                                h      |-> {"h"},
                                l      |-> {"l"}]]

\* A call of fn that has not run yet.
Frame(fn) == [fn |-> fn, at |-> "start", local |-> UndefinedVar]

\* The frame of the running function.
Top == stack[Len(stack)]

\* The running function is fn, at the point `at`.
Running(fn, at) ==
    /\ pc = "parseSteps"
    /\ stack # <<>>
    /\ Top.fn = fn
    /\ Top.at = at

\* tokenStream.peek() called by fn.
Peeked(fn) ==
    /\ log' = Append(log, [op |-> "peek", by |-> fn, i |-> tokenStream.i,
                           token |-> peek(tokenStream)])
    /\ tokenStream' = tokenStream

\* tokenStream.pop() called by fn.
Popped(fn) ==
    /\ log' = Append(log, [op |-> "pop", by |-> fn, i |-> tokenStream.i,
                           token |-> pop(tokenStream).token])
    /\ tokenStream' = pop(tokenStream).tokenStream

\* Variant of NoRead: a function that sees its callee fail puts the cursor
\* back at the start of the stream.
NoReadRewinding ==
    /\ log' = log
    /\ tokenStream' = IF ret # UndefinedVar /\ ~ret.ok
                      THEN [tokenStream EXCEPT !.i = 0]
                      ELSE tokenStream

\* The function goes on without touching the token stream.
NoRead ==
    /\ log' = log
    /\ tokenStream' = tokenStream

\* The running function calls callee; it will resume at the point `at`
\* holding `local`.
Call(at, local, callee) ==
    /\ stack' = Append([stack EXCEPT ![Len(stack)] = [@ EXCEPT !.at = at, !.local = local]],
                       Frame(callee))
    /\ ret' = UndefinedVar

\* The running function returns result to its caller.
Return(result) ==
    /\ stack' = SubSeq(stack, 1, Len(stack) - 1)
    /\ ret' = result

\* parseColumn (parse.ts 169-201): two steps, one per pop.
StepParseColumn ==
    /\ \/ /\ Running("parseColumn", "start")
          /\ Popped("parseColumn")
          /\ LET kind == pop(tokenStream).token.kind IN
             IF kind \in caseLabels.parseColumn.number
             THEN /\ stack' = [stack EXCEPT ![Len(stack)] = [@ EXCEPT !.at = "afterSeparator"]]
                  /\ ret' = UndefinedVar
             ELSE IF kind \in caseLabels.parseColumn.H \cup caseLabels.parseColumn.L
                             \cup caseLabels.parseColumn.h \cup caseLabels.parseColumn.l
             THEN Return(Ok([kind |-> kind], tokenStream'))
             ELSE Return(Err(tokenStream'))
       \/ /\ Running("parseColumn", "afterSeparator")
          /\ Popped("parseColumn")
          /\ LET next == pop(tokenStream).token IN
             IF next.kind = "number"
             THEN Return(Ok([kind |-> "number", value |-> next.magnitude], tokenStream'))
             ELSE Return(Err(tokenStream'))
    /\ UNCHANGED <<input, editor, config, syntaxTree, target, pc, callVars, controller, classVars>>

\* parseOptionalColumn (parse.ts 147-167)
StepParseOptionalColumn ==
    /\ \/ /\ Running("parseOptionalColumn", "start")
          /\ Peeked("parseOptionalColumn")
          /\ LET kind == peek(tokenStream).kind IN
             IF kind \in caseLabels.parseOptionalColumn.column
             THEN Call("afterColumn", UndefinedVar, "parseColumn")
             ELSE IF kind \in caseLabels.parseOptionalColumn.empty
             THEN Return(Ok(UndefinedVar, tokenStream'))
             ELSE Return(Err(tokenStream'))
       \/ /\ Running("parseOptionalColumn", "afterColumn")
          /\ NoRead
          /\ Return(ret)
    /\ UNCHANGED <<input, editor, config, syntaxTree, target, pc, callVars, controller, classVars>>

\* parseLine (parse.ts 129-144)
StepParseLine ==
    /\ Running("parseLine", "start")
    /\ Popped("parseLine")
    /\ LET next == pop(tokenStream).token IN
       IF next.kind \in caseLabels.parseLine.number
                        \cup caseLabels.parseLine.negativeNumber
       THEN Return(Ok([kind |-> next.kind, value |-> next.magnitude], tokenStream'))
       ELSE Return(Err(tokenStream'))
    /\ UNCHANGED <<input, editor, config, syntaxTree, target, pc, callVars, controller, classVars>>

\* parsePosition (parse.ts 96-127)
StepParsePosition ==
    /\ \/ /\ Running("parsePosition", "start")
          /\ Peeked("parsePosition")
          /\ LET kind == peek(tokenStream).kind IN
             IF kind \in caseLabels.parsePosition.line
             THEN Call("afterLine", UndefinedVar, "parseLine")
             ELSE IF kind \in caseLabels.parsePosition.column
             THEN Call("afterColumn", UndefinedVar, "parseColumn")
             ELSE Return(Err(tokenStream'))
       \/ /\ Running("parsePosition", "afterLine")
          /\ NoRead
          /\ IF ret.ok
             THEN Call("afterOptionalColumn", ret.value, "parseOptionalColumn")
             ELSE Return(Err(tokenStream'))
       \/ /\ Running("parsePosition", "afterOptionalColumn")
          /\ NoRead
          /\ IF ret.ok
             THEN Return(Ok([kind   |-> "lineWithOptionalColumn",
                             line   |-> Top.local,
                             column |-> ret.value], tokenStream'))
             ELSE Return(Err(tokenStream'))
       \/ /\ Running("parsePosition", "afterColumn")
          /\ NoRead
          /\ IF ret.ok
             THEN Return(Ok([kind |-> "columnOnly", column |-> ret.value], tokenStream'))
             ELSE Return(Err(tokenStream'))
    /\ UNCHANGED <<input, editor, config, syntaxTree, target, pc, callVars, controller, classVars>>

\* parseRangeEnd (parse.ts 78-94)
StepParseRangeEnd ==
    /\ \/ /\ Running("parseRangeEnd", "start")
          /\ Popped("parseRangeEnd")
          /\ LET kind == pop(tokenStream).token.kind IN
             IF kind \in caseLabels.parseRangeEnd.period
                             \cup caseLabels.parseRangeEnd.doublePeriod
             THEN Call("afterPosition", [kind |-> kind], "parsePosition")
             ELSE Return(Err(tokenStream'))
       \/ /\ Running("parseRangeEnd", "afterPosition")
          /\ NoRead
          /\ IF ret.ok
             THEN Return(Ok([kind |-> Top.local.kind, position |-> ret.value], tokenStream'))
             ELSE Return(Err(tokenStream'))
    /\ UNCHANGED <<input, editor, config, syntaxTree, target, pc, callVars, controller, classVars>>

\* parseOptionalRangeEnd (parse.ts 61-76)
StepParseOptionalRangeEnd ==
    /\ \/ /\ Running("parseOptionalRangeEnd", "start")
          /\ Peeked("parseOptionalRangeEnd")
          /\ LET kind == peek(tokenStream).kind IN
             IF kind \in caseLabels.parseOptionalRangeEnd.rangeEnd
             THEN Call("afterRangeEnd", UndefinedVar, "parseRangeEnd")
             ELSE IF kind \in caseLabels.parseOptionalRangeEnd.empty
             THEN Return(Ok(UndefinedVar, tokenStream'))
             ELSE Return(Err(tokenStream'))
       \/ /\ Running("parseOptionalRangeEnd", "afterRangeEnd")
          /\ NoRead
          /\ Return(ret)
    /\ UNCHANGED <<input, editor, config, syntaxTree, target, pc, callVars, controller, classVars>>

\* Variant of parseTarget: the `if (start.ok)` test is left out, so the
\* optional range end is parsed after a start position that failed.
StepParseTargetWithoutOkTest ==
    /\ \/ /\ Running("parseTarget", "start")
          /\ Peeked("parseTarget")
          /\ LET kind == peek(tokenStream).kind IN
             IF kind \in caseLabels.parseTarget.position
             THEN Call("afterStart", UndefinedVar, "parsePosition")
             ELSE IF kind \in caseLabels.parseTarget.rangeEnd
             THEN Call("afterRangeEnd", UndefinedVar, "parseRangeEnd")
             ELSE Return(Err(tokenStream'))
       \/ /\ Running("parseTarget", "afterStart")
          /\ NoRead
          /\ Call("afterEnd", IF ret.ok THEN ret.value ELSE UndefinedVar,
                  "parseOptionalRangeEnd")
       \/ /\ Running("parseTarget", "afterEnd")
          /\ NoRead
          /\ IF ret.ok
             THEN Return(Ok([kind  |-> "startWithOptionalRangeEnd",
                             start |-> Top.local,
                             end   |-> ret.value], tokenStream'))
             ELSE Return(Err(tokenStream'))
       \/ /\ Running("parseTarget", "afterRangeEnd")
          /\ NoRead
          /\ IF ret.ok
             THEN Return(Ok([kind |-> "rangeEndOnly", end |-> ret.value], tokenStream'))
             ELSE Return(Err(tokenStream'))
    /\ UNCHANGED <<input, editor, config, syntaxTree, target, pc, callVars, controller, classVars>>

\* parseTarget (parse.ts 25-58)
StepParseTarget ==
    /\ \/ /\ Running("parseTarget", "start")
          /\ Peeked("parseTarget")
          /\ LET kind == peek(tokenStream).kind IN
             IF kind \in caseLabels.parseTarget.position
             THEN Call("afterStart", UndefinedVar, "parsePosition")
             ELSE IF kind \in caseLabels.parseTarget.rangeEnd
             THEN Call("afterRangeEnd", UndefinedVar, "parseRangeEnd")
             ELSE Return(Err(tokenStream'))
       \/ /\ Running("parseTarget", "afterStart")
          /\ NoRead
          /\ IF ret.ok
             THEN Call("afterEnd", ret.value, "parseOptionalRangeEnd")
             ELSE Return(Err(tokenStream'))
       \/ /\ Running("parseTarget", "afterEnd")
          /\ NoRead
          /\ IF ret.ok
             THEN Return(Ok([kind  |-> "startWithOptionalRangeEnd",
                             start |-> Top.local,
                             end   |-> ret.value], tokenStream'))
             ELSE Return(Err(tokenStream'))
       \/ /\ Running("parseTarget", "afterRangeEnd")
          /\ NoRead
          /\ IF ret.ok
             THEN Return(Ok([kind |-> "rangeEndOnly", end |-> ret.value], tokenStream'))
             ELSE Return(Err(tokenStream'))
    /\ UNCHANGED <<input, editor, config, syntaxTree, target, pc, callVars, controller, classVars>>

\* parse (parse.ts 15-22): hasTokensRemaining() reads no token.
StepParse ==
    /\ \/ /\ Running("parse", "start")
          /\ NoRead
          /\ Call("afterTarget", UndefinedVar, "parseTarget")
          /\ UNCHANGED <<syntaxTree, pc>>
       \/ /\ Running("parse", "afterTarget")
          /\ NoRead
          /\ syntaxTree' = IF hasTokensRemaining(tokenStream) \/ ~ret.ok
                           THEN UndefinedVar
                           ELSE ret.value
          /\ stack' = <<>>
          /\ ret' = ret
          /\ pc' = "done"
    /\ UNCHANGED <<input, editor, config, target, callVars, controller, classVars>>

\* The tokens of the streams parsed step by step: one of each kind.
StepTokens ==
    {[kind |-> "number", magnitude |-> 7], [kind |-> "negativeNumber", magnitude |-> 7]} \cup
    {[kind |-> k] : k \in {"commaOrColon", "period", "doublePeriod", "H", "L", "h", "l"}}

InitParseSteps ==
    /\ input = <<>>
    /\ editor = SomeEditor
    /\ config = SomeConfig
    /\ \E n \in 0..MaxStepTokens :
         \E tokens \in [1..n -> StepTokens] : tokenStream = TokenStream(tokens)
    /\ syntaxTree = UndefinedVar
    /\ target = UndefinedTarget
    /\ pc = "parseSteps"
    /\ NoCall
    /\ stack = <<Frame("parse")>>
    /\ ret = UndefinedVar
    /\ log = <<>>
    /\ NoController
    /\ NoClass

NextParseSteps ==
    \/ StepParse
    \/ StepParseTarget
    \/ StepParseOptionalRangeEnd
    \/ StepParseRangeEnd
    \/ StepParsePosition
    \/ StepParseLine
    \/ StepParseOptionalColumn
    \/ StepParseColumn

\* A call runs to its end once started: the steps are those of one thread.
SpecParseSteps == InitParseSteps /\ [][NextParseSteps]_vars /\ WF_vars(NextParseSteps)

\* ------------------------------------------------------------------------
\* delayer.ts: the Delayer.  A Delayer is modelled with the timeouts setTimeout
\* has pending for it:
\*   timer     this.timer: the handle of the last timeout set (never reset: it
\*             is kept after the timeout has fired or was cleared), or undefined
\*   timeouts  the timeouts that are pending, each with the callback it runs
\*   created   the number of timeouts set so far; the handle of a new timeout
\*             differs from every earlier one
\* ------------------------------------------------------------------------

\* The handle setTimeout returns.
Timeout(id) == [kind |-> "timeout", id |-> id]

\* new Delayer(duration)
Delayer == [timer |-> UndefinedVar, timeouts |-> {}, created |-> 0]

\* clearTimeout(timer): a handle that has fired or was cleared is ignored.
clearTimeout(timeouts, timer) == {t \in timeouts : t.id # timer.id}

\* Delayer.clear
clear(d) ==
    IF d.timer # UndefinedVar
    THEN [d EXCEPT !.timeouts = clearTimeout(@, d.timer)]
    ELSE d

\* Delayer.queue without its this.clear().
queueWithoutClear(d, callback) ==
    [d EXCEPT !.timer = Timeout(d.created + 1),
              !.timeouts = @ \cup {[id |-> d.created + 1, callback |-> callback]},
              !.created = @ + 1]

\* Delayer.queue
queue(d, callback) ==
    LET cleared == clear(d)
    IN  [cleared EXCEPT !.timer = Timeout(cleared.created + 1),
                        !.timeouts = @ \cup {[id |-> cleared.created + 1,
                                              callback |-> callback]},
                        !.created = @ + 1]

\* A call of the Delayer used alone, or a timeout of it, is added to the log.
Logged(op, id) ==
    /\ Len(log) < MaxCalls
    /\ log' = Append(log, [op |-> op, id |-> id])
    /\ UNCHANGED <<input, editor, config, tokenStream, syntaxTree, target, pc,
                   callVars, stack, ret, controller, revealer, finiteAutomation>>

Queue ==
    /\ pc = "delayer"
    /\ \E callback \in {"a", "b"} : delayer' = queue(delayer, callback)
    /\ Logged("queue", delayer'.created)

\* Delayer.clear, or Delayer.dispose, which is equivalent to it.
Clear ==
    /\ pc = "delayer"
    /\ delayer' = clear(delayer)
    /\ \E op \in {"clear", "dispose"} : Logged(op, 0)

\* A pending timeout elapses and its callback runs.
TimeoutElapses ==
    /\ pc = "delayer"
    /\ \E t \in delayer.timeouts :
        /\ delayer' = [delayer EXCEPT !.timeouts = @ \ {t}]
        /\ Logged("fire", t.id)

InitDelayer ==
    /\ NoInterpret
    /\ editor = SomeEditor
    /\ pc = "delayer"
    /\ NoCall
    /\ NoParser
    /\ NoController
    /\ delayer = Delayer
    /\ revealer = UndefinedVar
    /\ finiteAutomation = UndefinedVar

NextDelayer == Queue \/ Clear \/ TimeoutElapses

SpecDelayer == InitDelayer /\ [][NextDelayer]_vars

\* ------------------------------------------------------------------------
\* controller.ts: one Controller.show.  `controller` holds the objects the
\* callbacks of the dialog close over:
\*   delayer       the Delayer; the callback of a timeout is the target it
\*                 previews and the reveal type it uses
\*   highlights    the target the Highlighter decorates, or undefined
\*   visibleRange  editor.visibleRanges[0], as its first and last line
\*   initialVisibleVerticalRange
\*   reveals       the number of editor.revealRange calls made so far
\*   open          whether the dialog is open (its input box is not disposed)
\*   listeners     the listeners of the dialog that are not disposed
\*   events        the number of events handled so far
\*   event         the last event handled
\*   trace         the callbacks of the dialog and the close() calls that ran
\*                 while the last event was handled, in order
\*   returned      the last callback of the dialog and what it returned
\*   selectionChangeInFlight  onDidAccept has set editor.selection and the
\*                 onDidChangeTextEditorSelection event of it has not arrived
\*   cursors       editor.selections.length when the dialog hid
\*   disposables   whether Controller.disposables holds the dialog, the
\*                 highlighter and the delayer
\* ------------------------------------------------------------------------

\* The values the input box takes: rejected ones, column-only positions and
\* range ends, and one with a line term.
ControllerInputs ==
    {<<>>, <<"x">>, <<",">>, <<"h">>, <<".", "L">>, <<".", ".", "h">>, <<"1">>}

\* The document the dialog is shown over: one line more than the viewport of
\* two lines needs to hide a line.
ControllerDocument == [l \in 1..(MaxLines + 1) |-> <<" ", "a", " ">>]

ControllerEditors ==
    {[document |-> ControllerDocument, selection |-> Selection(p, p)] :
        p \in PositionsOf(ControllerDocument)}

\* The vertical ranges a viewport over the document can show.
VisibleRanges(document) ==
    {r \in [start : 0..(Len(document) - 1), end : 0..(Len(document) - 1)] :
        r.start <= r.end}

\* new Range(start, end) of a target, as its first and last line.
rangeOf(t) ==
    IF t.kind = "goTo"
    THEN [start |-> t.position.line.value, end |-> t.position.line.value]
    ELSE LET anchorLine == t.selection.anchor.line.value
             activeLine == t.selection.active.line.value
         IN  [start |-> IF anchorLine <= activeLine THEN anchorLine ELSE activeLine,
              end   |-> IF anchorLine <= activeLine THEN activeLine ELSE anchorLine]

\* is-visible.ts
lineIsVisible(visibleRange, lineIndex) ==
    lineIndex >= visibleRange.start /\ lineIndex <= visibleRange.end

rangeIsFullyVisible(visibleRange, range) ==
    range.start >= visibleRange.start /\ range.end <= visibleRange.end

rangeCanFitWithinViewport(visibleRange, range) ==
    (range.start - range.end) <= (visibleRange.start - visibleRange.end)

\* The viewports editor.revealRange(range, revealType) can leave: the editor
\* keeps the height of the viewport; the Default type does not shift a
\* viewport that shows the range, any other call may scroll anywhere.
revealRange(document, visibleRange, range, revealType) ==
    IF revealType = "Default" /\ rangeIsFullyVisible(visibleRange, range)
    THEN {visibleRange}
    ELSE {v \in VisibleRanges(document) :
            v.end - v.start = visibleRange.end - visibleRange.start}

\* A callback of the dialog returned: value is the `ok` of the feedback validate
\* returns, or the boolean onDidAccept returns.
Returned(callback, value) == [callback |-> callback, thrown |-> FALSE, value |-> value]

\* A callback of the dialog was left by an exception.
Threw(callback) == [callback |-> callback, thrown |-> TRUE, value |-> FALSE]

\* delayer.clear()
delayerClear(c) == [c EXCEPT !.delayer = clear(@)]

\* delayer.queue(() => { editor.revealRange(range, revealType); highlighter...(t) })
delayerQueue(c, t, revealType) ==
    [c EXCEPT !.delayer = queue(@, [target |-> t, revealType |-> revealType])]

\* Highlighter.clear
highlighterClear(c) == [c EXCEPT !.highlights = UndefinedVar]

\* Highlighter.goTo / Highlighter.selection: the previous highlight is cleared
\* and the target decorated.
highlight(c, t) == [highlighterClear(c) EXCEPT !.highlights = t]

\* editor.revealRange(range, revealType) followed by the highlight of t, with
\* the viewport v the reveal leaves.
revealAndHighlight(c, t, v) ==
    highlight([c EXCEPT !.visibleRange = v, !.reveals = @ + 1], t)

\* The body of validate after interpret returned the target t (controller.ts
\* 42-106): the controllers it can leave.
validated(c, range, t) ==
    IF t.kind = "undefined"
    THEN {[highlighterClear(c) EXCEPT !.returned = Returned("validate", FALSE)]}
    ELSE IF t.kind = "goTo"
    THEN IF lineIsVisible(c.visibleRange, t.position.line.value)
         THEN {[revealAndHighlight(c, t, v) EXCEPT !.returned = Returned("validate", TRUE)] :
                  v \in revealRange(ControllerDocument, c.visibleRange, range, "Default")}
         ELSE {[delayerQueue(c, t, "InCenter") EXCEPT !.returned = Returned("validate", TRUE)]}
    ELSE IF rangeIsFullyVisible(c.visibleRange, range)
         THEN {[revealAndHighlight(c, t, v) EXCEPT !.returned = Returned("validate", TRUE)] :
                  v \in revealRange(ControllerDocument, c.visibleRange, range, "Default")}
         ELSE IF rangeCanFitWithinViewport(c.visibleRange, range)
         THEN {[delayerQueue(c, t, "InCenter") EXCEPT !.returned = Returned("validate", TRUE)]}
         ELSE {[delayerQueue(c, t, "Default") EXCEPT !.returned = Returned("validate", TRUE)]}

\* validate without the highlighter.clear() of a rejected input.
validateKeepingHighlights(c, value, t) ==
    IF t.kind = "thrown"
    THEN {[delayerClear(c) EXCEPT !.returned = Threw("validate")]}
    ELSE IF t.kind = "undefined"
    THEN {[delayerClear(c) EXCEPT !.returned = Returned("validate", FALSE)]}
    ELSE validated(delayerClear(c), rangeOf(t), t)

\* validate: (value) => ... with t the result of interpret(value, editor, config).
\* An exception of interpret leaves the callback after delayer.clear().
validate(c, value, t) ==
    IF t.kind = "thrown"
    THEN {[delayerClear(c) EXCEPT !.returned = Threw("validate")]}
    ELSE IF t.kind = "undefined"
    THEN validated(delayerClear(c), UndefinedVar, t)
    ELSE validated(delayerClear(c), rangeOf(t), t)

\* this.inputBox.dispose(): disposing an input box that is shown hides it, which
\* triggers the onDidHideListener if that is not disposed yet.
inputBoxDispose(c) ==
    [c EXCEPT !.open = FALSE,
              !.trace = IF c.open /\ "onDidHideListener" \in c.listeners
                        THEN Append(@, "onDidHideListener")
                        ELSE @]

\* Dialog.close with the input box disposed before the listeners.
closeDisposingInputBoxFirst(c) ==
    [inputBoxDispose([c EXCEPT !.trace = Append(@, "close")]) EXCEPT !.listeners = {}]

\* Dialog.close: the four listeners are disposed, then the input box.
close(c) ==
    inputBoxDispose([c EXCEPT !.listeners = {}, !.trace = Append(@, "close")])

\* The controller when the handling of an event starts.
Handling(event) ==
    [controller EXCEPT !.events = @ + 1, !.event = event, !.trace = <<>>]

\* onDidAccept: (value) => ... with t the result of interpret; the dialog
\* closes when the callback returns true (dialog.ts 97-101).  Setting
\* editor.selection makes the editor send a selection change event later.
onDidAccept(c, e, t) ==
    IF t.kind = "thrown"
    THEN [controller |-> [c EXCEPT !.returned = Threw("onDidAccept")], editor |-> e]
    ELSE IF t.kind = "undefined"
    THEN [controller |-> [c EXCEPT !.returned = Returned("onDidAccept", FALSE)],
          editor     |-> e]
    ELSE [controller |-> close([highlighterClear(delayerClear(c)) EXCEPT
                             !.returned = Returned("onDidAccept", TRUE),
                             !.selectionChangeInFlight = TRUE]),
          editor     |-> [e EXCEPT !.selection =
                             IF t.kind = "goTo" THEN Selection(t.position, t.position)
                             ELSE t.selection]]

\* onDidHideViaEscapeOrFocusChange: the controllers it can leave.
onDidHideViaEscapeOrFocusChange(c, e) ==
    LET cleared == highlighterClear(delayerClear(c))
        selectionRange == rangeOf([kind |-> "selection", selection |-> e.selection])
    IN  UNION {IF c.cursors = 1
               THEN {[cleared EXCEPT !.visibleRange = v, !.reveals = @ + 2] :
                        v \in revealRange(ControllerDocument, restored, selectionRange,
                                          "Default")}
               ELSE {[cleared EXCEPT !.visibleRange = restored, !.reveals = @ + 1]} :
           restored \in revealRange(ControllerDocument, cleared.visibleRange,
                                    c.initialVisibleVerticalRange, "AtTop")}

\* onDidHideViaSelectionInterrupt without its delayer.clear().
onDidHideViaSelectionInterruptKeepingTimer(c) == highlighterClear(c)

\* onDidHideViaSelectionInterrupt
onDidHideViaSelectionInterrupt(c) == highlighterClear(delayerClear(c))

\* The input box changes: the dialog's onDidChangeListener hands its value to
\* validate.  input' is that value and target' what interpret makes of it.
Validate ==
    /\ "onDidChangeListener" \in controller.listeners
    /\ controller' \in validate([Handling("change") EXCEPT !.trace = <<"validate">>],
                                input', target')
    /\ editor' = editor

\* The user presses Enter: the dialog hands the value of the input box to
\* onDidAccept.
OnDidAccept ==
    LET after == onDidAccept([Handling("accept") EXCEPT !.trace = <<"onDidAccept">>],
                             editor, target')
    IN  /\ "onDidAccept" \in controller.listeners
        /\ controller' = after.controller
        /\ editor' = after.editor

\* An event of the input box while the dialog is open: the listener reads
\* inputBox.value and its callback starts by interpreting it.
InputBoxEvent ==
    /\ pc = "controller"
    /\ controller.open
    /\ controller.events < MaxEvents
    /\ \E value \in ControllerInputs :
        /\ input' = value
        /\ target' = interpret(value, editor, config)
        /\ \/ Validate
           \/ OnDidAccept
    /\ UNCHANGED <<config, tokenStream, syntaxTree, pc, callVars, parserVars, classVars>>

\* The input box hides after an Escape keypress or a change of focus: the
\* onDidHideListener runs if it is not disposed (dialog.ts 103-109).  The
\* editor has one cursor or several by then.
InputBoxHides ==
    /\ pc = "controller"
    /\ controller.open
    /\ controller.events < MaxEvents
    /\ "onDidHideListener" \in controller.listeners
    /\ \E n \in 1..2 :
       \E c \in onDidHideViaEscapeOrFocusChange(
                  [Handling("hide") EXCEPT !.trace = <<"onDidHideViaEscapeOrFocusChange">>,
                                           !.cursors = n],
                  editor) :
           controller' = close(c)
    /\ UNCHANGED <<input, editor, config, tokenStream, syntaxTree, target, pc,
                   callVars, parserVars, classVars>>

\* A selection change event of the editor arrives: the one of the selection
\* onDidAccept has set, or one of a selection the user makes while the dialog
\* is open (a click out of the input box, at the start of a line).  The
\* selectionChangeListener runs if it is not disposed
\* (dialog.ts 91-95).
SelectionChangeEvent ==
    /\ pc = "controller"
    /\ controller.events < MaxEvents
    /\ \/ /\ controller.selectionChangeInFlight
          /\ editor' = editor
       \/ /\ ~controller.selectionChangeInFlight
          /\ controller.open
          /\ editor' \in ControllerEditors
          /\ editor'.selection.active.character = Number(0)
          /\ editor' # editor
    /\ LET arrived == [Handling("selectionChange") EXCEPT !.selectionChangeInFlight = FALSE]
       IN  controller' =
               IF "selectionChangeListener" \in controller.listeners
               THEN close(onDidHideViaSelectionInterrupt(
                        [arrived EXCEPT !.trace = <<"onDidHideViaSelectionInterrupt">>]))
               ELSE arrived
    /\ UNCHANGED <<input, config, tokenStream, syntaxTree, target, pc,
                   callVars, parserVars, classVars>>

\* Controller.dispose, called by the extension or at the start of the next
\* Controller.show: the dialog, the highlighter and the delayer are disposed
\* (controller.ts 162-165).
Dispose ==
    /\ pc = "controller"
    /\ controller.events < MaxEvents
    /\ controller.disposables
    /\ controller' = [delayerClear(highlighterClear(close(Handling("dispose"))))
                         EXCEPT !.disposables = FALSE]
    /\ UNCHANGED <<input, editor, config, tokenStream, syntaxTree, target, pc,
                   callVars, parserVars, classVars>>

\* The timeout of the Delayer elapses: the queued callback runs.
TimerFires ==
    /\ pc = "controller"
    /\ \E timeout \in controller.delayer.timeouts :
       LET t == timeout.callback.target IN
       \E v \in revealRange(ControllerDocument, controller.visibleRange, rangeOf(t),
                            timeout.callback.revealType) :
           controller' = revealAndHighlight(
               [controller EXCEPT !.delayer.timeouts = @ \ {timeout},
                                  !.event = "timeout", !.trace = <<>>], t, v)
    /\ UNCHANGED <<input, editor, config, tokenStream, syntaxTree, target, pc,
                   callVars, parserVars, classVars>>

\* Controller.show over an editor: the Dialog constructor validates the empty
\* value of the new input box once (dialog.ts 85).
InitController ==
    /\ input = <<>>
    /\ editor \in ControllerEditors
    /\ config = SomeConfig
    /\ tokenStream = UndefinedTokenStream
    /\ syntaxTree = UndefinedVar
    /\ target = UndefinedTarget
    /\ pc = "controller"
    /\ NoCall
    /\ NoParser
    /\ NoClass
    /\ \E v \in VisibleRanges(ControllerDocument) :
        controller = [delayer |-> Delayer, highlights |-> UndefinedVar,
                      visibleRange |-> v, initialVisibleVerticalRange |-> v,
                      reveals |-> 0, open |-> TRUE,
                      listeners |-> {"onDidChangeListener", "selectionChangeListener",
                                     "onDidAccept", "onDidHideListener"},
                      events |-> 0, event |-> "change", trace |-> <<"validate">>,
                      returned |-> Returned("validate", FALSE),
                      selectionChangeInFlight |-> FALSE, cursors |-> 1,
                      disposables |-> TRUE]

NextController ==
    InputBoxEvent \/ TimerFires \/ InputBoxHides \/ SelectionChangeEvent \/ Dispose

SpecController == InitController /\ [][NextController]_vars

\* ------------------------------------------------------------------------
\* revealer.ts: the Revealer, with the editor it reveals in and the timeouts
\* setTimeout has pending for it:
\*   viewportChangeTimer  the handle of the last timeout set, or undefined
\*   timeouts             the pending timeouts; the callback of one is the
\*                        arguments of the delayed reveal
\*   created              the number of timeouts set so far
\*   decorations          the range the decorations highlight, or undefined
\*   initialVisibleRange
\*   visibleRange         editor.visibleRanges[0], as its first and last line
\*   selection            editor.selection, as its first and last line
\*   selections           editor.selections.length
\*   calls                the number of calls made so far
\*   call                 the last call made, or the elapsing of a timeout
\*   revealed             the editor.revealRange calls the last call made
\* Positions and selections are given by their lines: the Revealer reads no
\* character index but to decorate.
\* ------------------------------------------------------------------------

\* The body of _revealLocation / _revealSelection that runs without delay
\* (revealer.ts 65-76, 124-135): the revealers it can leave.
executeReveal(r, range, center, noDecorate) ==
    LET revealType == IF center THEN "InCenter" ELSE "Default"
    IN  {[r EXCEPT !.decorations = IF noDecorate THEN @ ELSE range,
                   !.visibleRange = v,
                   !.revealed = Append(@, [range |-> range, revealType |-> revealType])] :
            v \in revealRange(ControllerDocument, r.visibleRange, range, revealType)}

\* _revealLocation(center, delay) / _revealSelection(target, center, delay)
reveal(r, range, center, delay, noDecorate) ==
    IF delay
    THEN {[r EXCEPT !.viewportChangeTimer = Timeout(r.created + 1),
                    !.timeouts = @ \cup {[id |-> r.created + 1,
                                          callback |-> [range |-> range, center |-> center,
                                                        noDecorate |-> noDecorate]]},
                    !.created = @ + 1]}
    ELSE executeReveal(r, range, center, noDecorate)

\* Revealer.clear(restore): the revealers it can leave.
revealerClear(r, restore) ==
    LET cleared == [r EXCEPT !.timeouts = IF r.viewportChangeTimer # UndefinedVar
                                          THEN clearTimeout(@, r.viewportChangeTimer)
                                          ELSE @,
                             !.decorations = UndefinedVar]
        restoring == [range |-> r.initialVisibleRange, revealType |-> "AtTop"]
    IN  IF ~restore
        THEN {cleared}
        ELSE UNION {IF r.selections = 0
                    THEN {[cleared EXCEPT
                              !.visibleRange = v,
                              !.revealed = @ \o <<restoring, [range |-> r.selection,
                                                              revealType |-> "Default"]>>] :
                             v \in revealRange(ControllerDocument, restored, r.selection,
                                               "Default")}
                    ELSE {[cleared EXCEPT !.visibleRange = restored,
                                          !.revealed = Append(@, restoring)]} :
                restored \in revealRange(ControllerDocument, r.visibleRange,
                                         r.initialVisibleRange, "AtTop")}

\* Revealer.revealLocation(location, options)
revealLocation(r, location, options) ==
    UNION {IF location >= c.visibleRange.start /\ location <= c.visibleRange.end
           THEN reveal(c, [start |-> location, end |-> location], FALSE, FALSE,
                       options.noDecorate)
           ELSE reveal(c, [start |-> location, end |-> location], TRUE, ~options.noDelay,
                       options.noDecorate) :
        c \in revealerClear(r, FALSE)}

\* Revealer.revealSelection(selection, options)
revealSelection(r, selection, options) ==
    LET range == rangeOf([kind |-> "selection", selection |-> selection])
        active == selection.active.line.value
    IN  UNION {IF range.start >= c.visibleRange.start /\ range.end <= c.visibleRange.end
               THEN reveal(c, range, FALSE, FALSE, options.noDecorate)
               ELSE IF range.end - range.start <= c.visibleRange.end - c.visibleRange.start
               THEN reveal(c, range, TRUE, ~options.noDelay, options.noDecorate)
               ELSE reveal(c, [start |-> active, end |-> active], FALSE, ~options.noDelay,
                           options.noDecorate) :
            c \in revealerClear(r, FALSE)}

\* The revealer when a call of it starts.
Called(call) ==
    [revealer EXCEPT !.calls = @ + 1, !.call = call, !.revealed = <<>>]

\* The first positions of the lines of the document.
LineStarts == {Position(Number(l), Number(0)) : l \in 0..(Len(ControllerDocument) - 1)}

RevealLocation ==
    /\ pc = "revealer"
    /\ revealer.calls < MaxEvents
    /\ \E location \in LineStarts, options \in [noDecorate : BOOLEAN, noDelay : BOOLEAN] :
           revealer' \in revealLocation(Called("revealLocation"), location.line.value,
                                        options)
    /\ UNCHANGED <<input, editor, config, tokenStream, syntaxTree, target, pc,
                   callVars, parserVars, controller, delayer, finiteAutomation>>

RevealSelection ==
    /\ pc = "revealer"
    /\ revealer.calls < MaxEvents
    /\ \E anchor \in LineStarts, active \in LineStarts,
          options \in [noDecorate : BOOLEAN, noDelay : BOOLEAN] :
           revealer' \in revealSelection(Called("revealSelection"),
                                         Selection(anchor, active), options)
    /\ UNCHANGED <<input, editor, config, tokenStream, syntaxTree, target, pc,
                   callVars, parserVars, controller, delayer, finiteAutomation>>

\* Revealer.clear(restore), or Revealer.dispose, which is clear(false).
RevealerClear ==
    /\ pc = "revealer"
    /\ revealer.calls < MaxEvents
    /\ \E restore \in BOOLEAN :
           revealer' \in revealerClear(
               Called(IF restore THEN "clear(true)" ELSE "clear(false)"), restore)
    /\ UNCHANGED <<input, editor, config, tokenStream, syntaxTree, target, pc,
                   callVars, parserVars, controller, delayer, finiteAutomation>>

\* A pending timeout elapses: the delayed reveal runs, without further delay.
RevealerTimeoutElapses ==
    /\ pc = "revealer"
    /\ \E t \in revealer.timeouts :
           revealer' \in executeReveal(
               [revealer EXCEPT !.timeouts = @ \ {t}, !.call = "timeout",
                                !.revealed = <<>>],
               t.callback.range, t.callback.center, t.callback.noDecorate)
    /\ UNCHANGED <<input, editor, config, tokenStream, syntaxTree, target, pc,
                   callVars, parserVars, controller, delayer, finiteAutomation>>

\* new Revealer(editor, configuration) over an editor with one cursor or two.
InitRevealer ==
    /\ NoInterpret
    /\ editor = SomeEditor
    /\ pc = "revealer"
    /\ NoCall
    /\ NoParser
    /\ NoController
    /\ delayer = UndefinedVar
    /\ finiteAutomation = UndefinedVar
    /\ \E v \in VisibleRanges(ControllerDocument), l \in 0..(Len(ControllerDocument) - 1),
          n \in 1..2 :
           revealer = [viewportChangeTimer |-> UndefinedVar, timeouts |-> {},
                       created |-> 0, decorations |-> UndefinedVar,
                       initialVisibleRange |-> v, visibleRange |-> v,
                       selection |-> [start |-> l, end |-> l], selections |-> n,
                       calls |-> 0, call |-> "new", revealed |-> <<>>]

NextRevealer == RevealLocation \/ RevealSelection \/ RevealerClear \/ RevealerTimeoutElapses

SpecRevealer == InitRevealer /\ [][NextRevealer]_vars

\* ------------------------------------------------------------------------
\* finite-automation.ts: the table-driven finite automation.
\* `finiteAutomation` holds currentState, the intent built so far, what the
\* last advance call returned ("true", "false", or "thrown" when the callback
\* of the transition threw) and the number of tokens read.
\* ------------------------------------------------------------------------

\* grammar/terminal.ts: the characters of the terminals.
TERMINAL ==
    [SELECT_SEPARATOR |-> ":",
     QUICK_SELECT_SEPARATOR |-> ",",
     COORDINATE_SEPARATOR |-> ",",
     POSITIVE_SIGN_PREFIX |-> "+",
     NEGATIVE_SIGN_PREFIX |-> "-",
     START_OF_LINE_SHORTCUT |-> "H",
     END_OF_LINE_SHORTCUT |-> "L",
     FIRST_NON_WHITESPACE_CHARACTER_SHORTCUT |-> "h",
     ONE_PAST_LAST_NON_WHITESPACE_CHARACTER_SHORTCUT |-> "l",
     ZERO |-> "0", ONE |-> "1", TWO |-> "2", THREE |-> "3", FOUR |-> "4",
     FIVE |-> "5", SIX |-> "6", SEVEN |-> "7", EIGHT |-> "8", NINE |-> "9"]

DIGIT_TERMINALS ==
    {TERMINAL.ONE, TERMINAL.TWO, TERMINAL.THREE, TERMINAL.FOUR, TERMINAL.FIVE,
     TERMINAL.SIX, TERMINAL.SEVEN, TERMINAL.EIGHT, TERMINAL.NINE}

\* The transitions, in the order of the table.  A condition is the set of the
\* tokens it matches.  A callback is written as what it does to the intent:
\*   sign       intent.<coordinate>.<term> = { kind, magnitude: '' }
\*   absolute   intent.<coordinate>.<term> = { kind: 'absolute', magnitude: token }
\*   shortcut   intent.<coordinate>.<term> = { kind }
\*   append     intent.<coordinate>.<term>.magnitude += token, throwing unless
\*              the term is relative (signed) or is relative or absolute (any)
\*   selectionMode  intent.selectionMode = SELECTION_MODE.<kind>
\*   none       () => {}
TRANSITIONS ==
    <<
       [id |-> "ANCHOR_LINE_REL_NEG", source |-> "START", destination |-> "ANCHOR_LINE_SIGN_PREFIX",
        condition |-> {TERMINAL.NEGATIVE_SIGN_PREFIX},
        callback |-> [op |-> "sign", coordinate |-> "anchor", term |-> "line", kind |-> "negativeRelative"]],
       [id |-> "ANCHOR_LINE_REL_POS", source |-> "START", destination |-> "ANCHOR_LINE_SIGN_PREFIX",
        condition |-> {TERMINAL.POSITIVE_SIGN_PREFIX},
        callback |-> [op |-> "sign", coordinate |-> "anchor", term |-> "line", kind |-> "positiveRelative"]],
       [id |-> "ANCHOR_LINE_ABS", source |-> "START", destination |-> "ANCHOR_LINE",
        condition |-> DIGIT_TERMINALS,
        callback |-> [op |-> "absolute", coordinate |-> "anchor", term |-> "line", kind |-> "absolute"]],
       [id |-> "ANCHOR_LINE_REL_MAG", source |-> "ANCHOR_LINE_SIGN_PREFIX", destination |-> "ANCHOR_LINE",
        condition |-> DIGIT_TERMINALS,
        callback |-> [op |-> "append", coordinate |-> "anchor", term |-> "line", kind |-> "signed"]],
       [id |-> "ANCHOR_LINE_MAG", source |-> "ANCHOR_LINE", destination |-> "ANCHOR_LINE",
        condition |-> DIGIT_TERMINALS,
        callback |-> [op |-> "append", coordinate |-> "anchor", term |-> "line", kind |-> "any"]],
       [id |-> "ANCHOR_SEP_1", source |-> "START", destination |-> "ANCHOR_COORDINATE_SEPARATOR",
        condition |-> {TERMINAL.COORDINATE_SEPARATOR},
        callback |-> [op |-> "none", coordinate |-> "", term |-> "", kind |-> ""]],
       [id |-> "ANCHOR_SEP_2", source |-> "ANCHOR_LINE", destination |-> "ANCHOR_COORDINATE_SEPARATOR",
        condition |-> {TERMINAL.COORDINATE_SEPARATOR},
        callback |-> [op |-> "none", coordinate |-> "", term |-> "", kind |-> ""]],
       [id |-> "ANCHOR_SHORT_1A", source |-> "START", destination |-> "ANCHOR_CHAR_SHORTCUT",
        condition |-> {TERMINAL.FIRST_NON_WHITESPACE_CHARACTER_SHORTCUT},
        callback |-> [op |-> "shortcut", coordinate |-> "anchor", term |-> "character", kind |-> "firstNonWhitespaceCharacterShortcut"]],
       [id |-> "ANCHOR_SHORT_1B", source |-> "START", destination |-> "ANCHOR_CHAR_SHORTCUT",
        condition |-> {TERMINAL.ONE_PAST_LAST_NON_WHITESPACE_CHARACTER_SHORTCUT},
        callback |-> [op |-> "shortcut", coordinate |-> "anchor", term |-> "character", kind |-> "onePastLastNonWhitespaceCharacterShortcut"]],
       [id |-> "ANCHOR_SHORT_1C", source |-> "START", destination |-> "ANCHOR_CHAR_SHORTCUT",
        condition |-> {TERMINAL.START_OF_LINE_SHORTCUT},
        callback |-> [op |-> "shortcut", coordinate |-> "anchor", term |-> "character", kind |-> "startOfLineShortcut"]],
       [id |-> "ANCHOR_SHORT_1D", source |-> "START", destination |-> "ANCHOR_CHAR_SHORTCUT",
        condition |-> {TERMINAL.END_OF_LINE_SHORTCUT},
        callback |-> [op |-> "shortcut", coordinate |-> "anchor", term |-> "character", kind |-> "endOfLineShortcut"]],
       [id |-> "ANCHOR_SHORT_2A", source |-> "ANCHOR_LINE", destination |-> "ANCHOR_CHAR_SHORTCUT",
        condition |-> {TERMINAL.FIRST_NON_WHITESPACE_CHARACTER_SHORTCUT},
        callback |-> [op |-> "shortcut", coordinate |-> "anchor", term |-> "character", kind |-> "firstNonWhitespaceCharacterShortcut"]],
       [id |-> "ANCHOR_SHORT_2B", source |-> "ANCHOR_LINE", destination |-> "ANCHOR_CHAR_SHORTCUT",
        condition |-> {TERMINAL.ONE_PAST_LAST_NON_WHITESPACE_CHARACTER_SHORTCUT},
        callback |-> [op |-> "shortcut", coordinate |-> "anchor", term |-> "character", kind |-> "onePastLastNonWhitespaceCharacterShortcut"]],
       [id |-> "ANCHOR_SHORT_2C", source |-> "ANCHOR_LINE", destination |-> "ANCHOR_CHAR_SHORTCUT",
        condition |-> {TERMINAL.START_OF_LINE_SHORTCUT},
        callback |-> [op |-> "shortcut", coordinate |-> "anchor", term |-> "character", kind |-> "startOfLineShortcut"]],
       [id |-> "ANCHOR_SHORT_2D", source |-> "ANCHOR_LINE", destination |-> "ANCHOR_CHAR_SHORTCUT",
        condition |-> {TERMINAL.END_OF_LINE_SHORTCUT},
        callback |-> [op |-> "shortcut", coordinate |-> "anchor", term |-> "character", kind |-> "endOfLineShortcut"]],
       [id |-> "ANCHOR_CHAR_REL_NEG", source |-> "ANCHOR_COORDINATE_SEPARATOR", destination |-> "ANCHOR_CHAR_SIGN_PREFIX",
        condition |-> {TERMINAL.NEGATIVE_SIGN_PREFIX},
        callback |-> [op |-> "sign", coordinate |-> "anchor", term |-> "character", kind |-> "negativeRelative"]],
       [id |-> "ANCHOR_CHAR_REL_POS", source |-> "ANCHOR_COORDINATE_SEPARATOR", destination |-> "ANCHOR_CHAR_SIGN_PREFIX",
        condition |-> {TERMINAL.POSITIVE_SIGN_PREFIX},
        callback |-> [op |-> "sign", coordinate |-> "anchor", term |-> "character", kind |-> "positiveRelative"]],
       [id |-> "ANCHOR_CHAR_ABS", source |-> "ANCHOR_COORDINATE_SEPARATOR", destination |-> "ANCHOR_CHAR",
        condition |-> DIGIT_TERMINALS,
        callback |-> [op |-> "absolute", coordinate |-> "anchor", term |-> "character", kind |-> "absolute"]],
       [id |-> "ANCHOR_CHAR_REL_MAG", source |-> "ANCHOR_CHAR_SIGN_PREFIX", destination |-> "ANCHOR_CHAR",
        condition |-> DIGIT_TERMINALS,
        callback |-> [op |-> "append", coordinate |-> "anchor", term |-> "character", kind |-> "signed"]],
       [id |-> "ANCHOR_CHAR_MAG", source |-> "ANCHOR_CHAR", destination |-> "ANCHOR_CHAR",
        condition |-> DIGIT_TERMINALS,
        callback |-> [op |-> "append", coordinate |-> "anchor", term |-> "character", kind |-> "any"]],
       [id |-> "SELECT_FROM_ANCHOR_SEP", source |-> "START", destination |-> "ACTIVE_START",
        condition |-> {TERMINAL.SELECT_SEPARATOR},
        callback |-> [op |-> "selectionMode", coordinate |-> "", term |-> "", kind |-> "SELECT_FROM_CURSOR"]],
       [id |-> "SELECT_FROM_ANCHOR_QUICK_SEP", source |-> "START", destination |-> "ACTIVE_START",
        condition |-> {TERMINAL.QUICK_SELECT_SEPARATOR},
        callback |-> [op |-> "selectionMode", coordinate |-> "", term |-> "", kind |-> "QUICK_SELECT_FROM_CURSOR"]],
       [id |-> "SELECT_SEP_1", source |-> "ANCHOR_LINE", destination |-> "ACTIVE_START",
        condition |-> {TERMINAL.SELECT_SEPARATOR},
        callback |-> [op |-> "selectionMode", coordinate |-> "", term |-> "", kind |-> "SELECT"]],
       [id |-> "SELECT_QUICK_SEP_1", source |-> "ANCHOR_LINE", destination |-> "ACTIVE_START",
        condition |-> {TERMINAL.QUICK_SELECT_SEPARATOR},
        callback |-> [op |-> "selectionMode", coordinate |-> "", term |-> "", kind |-> "QUICK_SELECT"]],
       [id |-> "SELECT_SEP_2", source |-> "ANCHOR_CHAR", destination |-> "ACTIVE_START",
        condition |-> {TERMINAL.SELECT_SEPARATOR},
        callback |-> [op |-> "selectionMode", coordinate |-> "", term |-> "", kind |-> "SELECT"]],
       [id |-> "SELECT_QUICK_SEP_2", source |-> "ANCHOR_CHAR", destination |-> "ACTIVE_START",
        condition |-> {TERMINAL.QUICK_SELECT_SEPARATOR},
        callback |-> [op |-> "selectionMode", coordinate |-> "", term |-> "", kind |-> "QUICK_SELECT"]],
       [id |-> "SELECT_SEP_3", source |-> "ANCHOR_CHAR_SHORTCUT", destination |-> "ACTIVE_START",
        condition |-> {TERMINAL.SELECT_SEPARATOR},
        callback |-> [op |-> "selectionMode", coordinate |-> "", term |-> "", kind |-> "SELECT"]],
       [id |-> "SELECT_QUICK_SEP_3", source |-> "ANCHOR_CHAR_SHORTCUT", destination |-> "ACTIVE_START",
        condition |-> {TERMINAL.QUICK_SELECT_SEPARATOR},
        callback |-> [op |-> "selectionMode", coordinate |-> "", term |-> "", kind |-> "QUICK_SELECT"]],
       [id |-> "ACTIVE_LINE_REL_NEG", source |-> "ACTIVE_START", destination |-> "ACTIVE_LINE_SIGN_PREFIX",
        condition |-> {TERMINAL.NEGATIVE_SIGN_PREFIX},
        callback |-> [op |-> "sign", coordinate |-> "active", term |-> "line", kind |-> "negativeRelative"]],
       [id |-> "ACTIVE_LINE_REL_POS", source |-> "ACTIVE_START", destination |-> "ACTIVE_LINE_SIGN_PREFIX",
        condition |-> {TERMINAL.POSITIVE_SIGN_PREFIX},
        callback |-> [op |-> "sign", coordinate |-> "active", term |-> "line", kind |-> "positiveRelative"]],
       [id |-> "ACTIVE_LINE_ABS", source |-> "ACTIVE_START", destination |-> "ACTIVE_LINE",
        condition |-> DIGIT_TERMINALS,
        callback |-> [op |-> "absolute", coordinate |-> "active", term |-> "line", kind |-> "absolute"]],
       [id |-> "ACTIVE_LINE_REL_MAG", source |-> "ACTIVE_LINE_SIGN_PREFIX", destination |-> "ACTIVE_LINE",
        condition |-> DIGIT_TERMINALS,
        callback |-> [op |-> "append", coordinate |-> "active", term |-> "line", kind |-> "signed"]],
       [id |-> "ACTIVE_LINE_MAG", source |-> "ACTIVE_LINE", destination |-> "ACTIVE_LINE",
        condition |-> DIGIT_TERMINALS,
        callback |-> [op |-> "append", coordinate |-> "active", term |-> "line", kind |-> "any"]],
       [id |-> "ACTIVE_SEP_1", source |-> "ACTIVE_START", destination |-> "ACTIVE_COORDINATE_SEPARATOR",
        condition |-> {TERMINAL.COORDINATE_SEPARATOR},
        callback |-> [op |-> "none", coordinate |-> "", term |-> "", kind |-> ""]],
       [id |-> "ACTIVE_SEP_2", source |-> "ACTIVE_LINE", destination |-> "ACTIVE_COORDINATE_SEPARATOR",
        condition |-> {TERMINAL.COORDINATE_SEPARATOR},
        callback |-> [op |-> "none", coordinate |-> "", term |-> "", kind |-> ""]],
       [id |-> "ACTIVE_SHORT_1A", source |-> "ACTIVE_START", destination |-> "ACTIVE_CHAR_SHORTCUT",
        condition |-> {TERMINAL.FIRST_NON_WHITESPACE_CHARACTER_SHORTCUT},
        callback |-> [op |-> "shortcut", coordinate |-> "active", term |-> "character", kind |-> "firstNonWhitespaceCharacterShortcut"]],
       [id |-> "ACTIVE_SHORT_1B", source |-> "ACTIVE_START", destination |-> "ACTIVE_CHAR_SHORTCUT",
        condition |-> {TERMINAL.ONE_PAST_LAST_NON_WHITESPACE_CHARACTER_SHORTCUT},
        callback |-> [op |-> "shortcut", coordinate |-> "active", term |-> "character", kind |-> "onePastLastNonWhitespaceCharacterShortcut"]],
       [id |-> "ACTIVE_SHORT_1C", source |-> "ACTIVE_START", destination |-> "ACTIVE_CHAR_SHORTCUT",
        condition |-> {TERMINAL.START_OF_LINE_SHORTCUT},
        callback |-> [op |-> "shortcut", coordinate |-> "active", term |-> "character", kind |-> "startOfLineShortcut"]],
       [id |-> "ACTIVE_SHORT_1D", source |-> "ACTIVE_START", destination |-> "ACTIVE_CHAR_SHORTCUT",
        condition |-> {TERMINAL.END_OF_LINE_SHORTCUT},
        callback |-> [op |-> "shortcut", coordinate |-> "active", term |-> "character", kind |-> "endOfLineShortcut"]],
       [id |-> "ACTIVE_SHORT_2A", source |-> "ACTIVE_LINE", destination |-> "ACTIVE_CHAR_SHORTCUT",
        condition |-> {TERMINAL.FIRST_NON_WHITESPACE_CHARACTER_SHORTCUT},
        callback |-> [op |-> "shortcut", coordinate |-> "active", term |-> "character", kind |-> "firstNonWhitespaceCharacterShortcut"]],
       [id |-> "ACTIVE_SHORT_2B", source |-> "ACTIVE_LINE", destination |-> "ACTIVE_CHAR_SHORTCUT",
        condition |-> {TERMINAL.ONE_PAST_LAST_NON_WHITESPACE_CHARACTER_SHORTCUT},
        callback |-> [op |-> "shortcut", coordinate |-> "active", term |-> "character", kind |-> "onePastLastNonWhitespaceCharacterShortcut"]],
       [id |-> "ACTIVE_SHORT_2C", source |-> "ACTIVE_LINE", destination |-> "ACTIVE_CHAR_SHORTCUT",
        condition |-> {TERMINAL.START_OF_LINE_SHORTCUT},
        callback |-> [op |-> "shortcut", coordinate |-> "active", term |-> "character", kind |-> "startOfLineShortcut"]],
       [id |-> "ACTIVE_SHORT_2D", source |-> "ACTIVE_LINE", destination |-> "ACTIVE_CHAR_SHORTCUT",
        condition |-> {TERMINAL.END_OF_LINE_SHORTCUT},
        callback |-> [op |-> "shortcut", coordinate |-> "active", term |-> "character", kind |-> "endOfLineShortcut"]],
       [id |-> "ACTIVE_CHAR_REL_NEG", source |-> "ACTIVE_COORDINATE_SEPARATOR", destination |-> "ACTIVE_CHAR_SIGN_PREFIX",
        condition |-> {TERMINAL.NEGATIVE_SIGN_PREFIX},
        callback |-> [op |-> "sign", coordinate |-> "active", term |-> "character", kind |-> "negativeRelative"]],
       [id |-> "ACTIVE_CHAR_REL_POS", source |-> "ACTIVE_COORDINATE_SEPARATOR", destination |-> "ACTIVE_CHAR_SIGN_PREFIX",
        condition |-> {TERMINAL.POSITIVE_SIGN_PREFIX},
        callback |-> [op |-> "sign", coordinate |-> "active", term |-> "character", kind |-> "positiveRelative"]],
       [id |-> "ACTIVE_CHAR_ABS", source |-> "ACTIVE_COORDINATE_SEPARATOR", destination |-> "ACTIVE_CHAR",
        condition |-> DIGIT_TERMINALS,
        callback |-> [op |-> "absolute", coordinate |-> "active", term |-> "character", kind |-> "absolute"]],
       [id |-> "ACTIVE_CHAR_REL_MAG", source |-> "ACTIVE_CHAR_SIGN_PREFIX", destination |-> "ACTIVE_CHAR",
        condition |-> DIGIT_TERMINALS,
        callback |-> [op |-> "append", coordinate |-> "active", term |-> "character", kind |-> "signed"]],
       [id |-> "ACTIVE_CHAR_MAG", source |-> "ACTIVE_CHAR", destination |-> "ACTIVE_CHAR",
        condition |-> DIGIT_TERMINALS,
        callback |-> [op |-> "append", coordinate |-> "active", term |-> "character", kind |-> "any"]]
    >>

\* callback(intent, token) of a transition: the intent it leaves, or Thrown.
transitionCallback(transition, intent, token) ==
    LET c == transition.callback
        term == intent[c.coordinate][c.term]
    IN  CASE c.op = "sign" ->
                [intent EXCEPT ![c.coordinate][c.term] = [kind |-> c.kind, magnitude |-> <<>>]]
          [] c.op = "absolute" ->
                [intent EXCEPT ![c.coordinate][c.term] =
                                   [kind |-> "absolute", magnitude |-> <<token>>]]
          [] c.op = "shortcut" ->
                [intent EXCEPT ![c.coordinate][c.term] = [kind |-> c.kind]]
          [] c.op = "append" ->
                IF \/ term.kind \in {"positiveRelative", "negativeRelative"}
                   \/ c.kind = "any" /\ term.kind = "absolute"
                THEN [intent EXCEPT ![c.coordinate][c.term].magnitude = Append(@, token)]
                ELSE Thrown
          [] c.op = "selectionMode" -> [intent EXCEPT !.selectionMode = c.kind]
          [] c.op = "none" -> intent

\* FiniteAutomation.advance(token): the first transition of the table out of
\* the current state whose condition the token matches is taken.
advance(fa, token) ==
    LET matching == {k \in 1..Len(TRANSITIONS) :
                        /\ TRANSITIONS[k].source = fa.currentState
                        /\ token \in TRANSITIONS[k].condition}
    IN  IF matching = {}
        THEN [fa EXCEPT !.returned = "false", !.tokens = @ + 1]
        ELSE LET first == TRANSITIONS[CHOOSE k \in matching : \A j \in matching : k <= j]
                 built == transitionCallback(first, fa.intent, token)
             IN  IF built = Thrown
                 THEN [fa EXCEPT !.currentState = first.destination,
                                 !.returned = "thrown", !.tokens = @ + 1]
                 ELSE [fa EXCEPT !.currentState = first.destination, !.intent = built,
                                 !.returned = "true", !.tokens = @ + 1]

\* advance is called with a terminal or with a character that is none.
Advance ==
    /\ pc = "finiteAutomation"
    /\ finiteAutomation.tokens < MaxStepTokens
    /\ \E token \in {TERMINAL[name] : name \in DOMAIN TERMINAL} \cup {"x"} :
           finiteAutomation' = advance(finiteAutomation, token)
    /\ UNCHANGED <<input, editor, config, tokenStream, syntaxTree, target, pc,
                   callVars, parserVars, controller, delayer, revealer>>

\* new FiniteAutomation()
InitAutomation ==
    /\ NoInterpret
    /\ editor = SomeEditor
    /\ pc = "finiteAutomation"
    /\ NoCall
    /\ NoParser
    /\ NoController
    /\ delayer = UndefinedVar
    /\ revealer = UndefinedVar
    /\ finiteAutomation =
           [currentState |-> "START",
            intent |-> [anchor |-> [line |-> [kind |-> "none"], character |-> [kind |-> "none"]],
                        active |-> [line |-> [kind |-> "none"], character |-> [kind |-> "none"]],
                        selectionMode |-> "GOTO"],
            returned |-> "true",
            tokens |-> 0]

SpecAutomation == InitAutomation /\ [][Advance]_vars

\* ------------------------------------------------------------------------
\* The grammar of docs/grammar (its PRODUCTIONS), as the sets of token-kind
\* sequences each variable derives.  /-//[0-9]+/ is the negativeNumber token.
\* ------------------------------------------------------------------------

COLUMN == {<<"commaOrColon", "number">>, <<"H">>, <<"L">>, <<"h">>, <<"l">>}

OPTIONAL_COLUMN == COLUMN \cup {<<>>}

LINE == {<<"number">>, <<"negativeNumber">>}

POSITION == {l \o c : l \in LINE, c \in OPTIONAL_COLUMN} \cup COLUMN

RANGE_END ==
    {<<"period">> \o p : p \in POSITION} \cup {<<"doublePeriod">> \o p : p \in POSITION}

OPTIONAL_RANGE_END == RANGE_END \cup {<<>>}

TARGET == {p \o e : p \in POSITION, e \in OPTIONAL_RANGE_END} \cup RANGE_END

\* The kinds of a token sequence.
Kinds(tokens) == [k \in 1..Len(tokens) |-> tokens[k].kind]

\* ------------------------------------------------------------------------
\* Helpers of the properties
\* ------------------------------------------------------------------------

\* s with the character c inserted before index k (k = Len(s): appended).
InsertAt(s, k, c) == SubSeq(s, 1, k) \o <<c>> \o SubSeq(s, k + 1, Len(s))

\* The decimal value of a string of digits.
RECURSIVE DecimalValue(_)
DecimalValue(d) ==
    IF d = <<>> THEN 0
    ELSE DecimalValue(SubSeq(d, 1, Len(d) - 1)) * 10 + toDigit[d[Len(d)]]

IsDigits(d) == d # <<>> /\ \A k \in 1..Len(d) : isDigit(d[k])

IsBlank(s) == \A k \in 1..Len(s) : s[k] \in Whitespace

\* interpret returned a Target (neither undefined nor an exception).
Accepted(t) == t.kind \in {"goTo", "selection"}

\* The positions a Target holds.
PositionsIn(t) ==
    CASE t.kind = "goTo" -> {t.position}
      [] t.kind = "selection" -> {t.selection.anchor, t.selection.active}
      [] OTHER -> {}

\* n clamped into [lo, hi].
Clamp(n, lo, hi) == IF n < lo THEN lo ELSE IF n > hi THEN hi ELSE n

\* ------------------------------------------------------------------------
\* Properties
\* ------------------------------------------------------------------------

\* C1: whitespace invariance.  When interpret accepts the input with target
\* T, the input with a whitespace character inserted before, after or
\* between any two of its characters is accepted with exactly T.
C1_WhitespaceInvariance ==
    (pc = "done" /\ Accepted(target)) =>
        \A k \in 0..Len(input) :
            interpret(InsertAt(input, k, " "), editor, config) = target

\* C2: a digit run d at any offset (after any number of whitespace
\* characters) is tokenized to exactly one number token whose magnitude is
\* the decimal value of d, and '-' directly followed by d to exactly one
\* negativeNumber token of that magnitude.
C2_DigitRunMagnitude ==
    pc # "tokenize" =>
        \A k \in 0..Len(input) :
            LET lead == SubSeq(input, 1, k)
                rest == SubSeq(input, k + 1, Len(input))
            IN  /\ (IsBlank(lead) /\ IsDigits(rest)) =>
                    /\ tokenStream.defined
                    /\ tokenStream.rawTokens =
                         <<[kind |-> "number", magnitude |-> DecimalValue(rest)]>>
                /\ (IsBlank(lead) /\ rest # <<>> /\ Head(rest) = "-" /\ IsDigits(Tail(rest))) =>
                    /\ tokenStream.defined
                    /\ tokenStream.rawTokens =
                         <<[kind |-> "negativeNumber",
                            magnitude |-> DecimalValue(Tail(rest))]>>

\* C3: grammar completeness.  parse returns a syntax tree exactly when the
\* whole token sequence is derivable from TARGET in the grammar.
C3_GrammarCompleteness ==
    pc # "parse" =>
        ((syntaxTree # UndefinedVar) <=> (Kinds(tokenStream.rawTokens) \in TARGET))

\* C3 witness: '1.2.3' -- parseTarget succeeds on '1.2' and the second range
\* end is left unconsumed, so parse rejects.
C3_Witness ==
    /\ pc = "done"
    /\ Kinds(tokenStream.rawTokens) = <<"number", "period", "number", "period", "number">>
    /\ parseTarget(TokenStream(tokenStream.rawTokens)).ok
    /\ hasTokensRemaining(tokenStream)
    /\ syntaxTree = UndefinedVar

\* C4: the empty string and every whitespace-only input are rejected:
\* tokenize yields an empty token stream, parse rejects it at EOF, and
\* interpretTarget never runs.
C4_BlankInputRejected ==
    IsBlank(input) =>
        /\ pc # "interpretTarget"
        /\ pc \in {"parse", "done"} => (tokenStream.defined /\ tokenStream.rawTokens = <<>>)
        /\ pc = "done" => (syntaxTree = UndefinedVar /\ target = UndefinedTarget)

\* C4 witness: interpret has returned for an input of two spaces.
C4_Witness ==
    /\ pc = "done"
    /\ input = <<" ", " ">>
    /\ tokenStream.defined
    /\ target = UndefinedTarget

\* A character tokenize has a rule for at index i of the input.
Tokenizable(s, i) ==
    \/ At(s, i) \in Whitespace
    \/ At(s, i) \in {"0", "1", "2", "3", "4", "5", "6", "7", "8", "9"}
    \/ At(s, i) \in {",", ":", ".", "H", "L", "h", "l"}
    \/ /\ At(s, i) = "-"
       /\ i + 1 < Len(s)
       /\ At(s, i + 1) \in {"0", "1", "2", "3", "4", "5", "6", "7", "8", "9"}

C6_InterpreterTotal ==
    (pc = "done" /\ syntaxTree # UndefinedVar) =>
        /\ Accepted(target)
        /\ \A p \in PositionsIn(target) : p.line.defined /\ p.character.defined

\* C7: clamping totality.  For every input the parser accepts, each position
\* of the returned Target has its line in [0, lineCount - 1] and its
\* character in [0, length of that line].
C7_ClampingTotality ==
    (pc = "done" /\ syntaxTree # UndefinedVar) =>
        /\ PositionsIn(target) # {}
        /\ \A p \in PositionsIn(target) :
            /\ p.line.defined /\ p.character.defined
            /\ p.line.value \in 0..(Len(editor.document) - 1)
            /\ p.character.value \in 0..Len(editor.document[p.line.value + 1])

\* The input is a go-to whose position starts with a line term of this kind
\* of token.
GoToWithLineToken(kind) ==
    /\ pc = "done"
    /\ syntaxTree # UndefinedVar
    /\ syntaxTree.kind = "startWithOptionalRangeEnd"
    /\ syntaxTree.end = UndefinedVar
    /\ syntaxTree.start.kind = "lineWithOptionalColumn"
    /\ tokenStream.rawTokens[1].kind = kind

\* C8: an absolute line term of magnitude m resolves to the line index
\* m - 1 clamped into [0, lineCount - 1].
C8_AbsoluteLine ==
    GoToWithLineToken("number") =>
        /\ target.kind = "goTo"
        /\ target.position.line =
             Number(Clamp(tokenStream.rawTokens[1].magnitude - 1,
                          0, Len(editor.document) - 1))

\* C9: a minus-prefixed line term '-m' of a start position resolves to the
\* primary cursor's line index minus m, clamped into [0, lineCount - 1].
C9_MinusPrefixedLine ==
    GoToWithLineToken("negativeNumber") =>
        /\ target.kind = "goTo"
        /\ target.position.line =
             Number(Clamp(editor.selection.active.line.value
                            - tokenStream.rawTokens[1].magnitude,
                          0, Len(editor.document) - 1))

\* C10: a signed-positive line term '+m' is accepted and resolves to the
\* primary cursor's line index plus m, clamped into [0, lineCount - 1].
C10_PlusPrefixedLine ==
    (pc = "done" /\ input # <<>> /\ Head(input) = "+" /\ IsDigits(Tail(input))) =>
        /\ target.kind = "goTo"
        /\ target.position.line =
             Number(Clamp(editor.selection.active.line.value + DecimalValue(Tail(input)),
                          0, Len(editor.document) - 1))

\* The 0-based indices of the characters of a text that are not whitespace.
NonBlankIndices(text) == {i \in 0..(Len(text) - 1) : At(text, i) \notin Whitespace}

\* The smallest and the largest element of a non-empty set of integers.
Min(S) == CHOOSE n \in S : \A k \in S : n <= k

Max(S) == CHOOSE n \in S : \A k \in S : n >= k

\* C11: an absolute column term of magnitude m resolves to the character
\* index m - 1 clamped into [0, lineLength] of the line it is resolved on:
\* magnitude 0 gives index 0 and any m > lineLength + 1 gives lineLength.
C11_AbsoluteColumn ==
    (pc = "done" /\ varColumn.kind = "number") =>
        /\ columnInd =
             Number(Clamp(varColumn.value - 1, 0, Len(targetLine.text)))
        /\ varColumn.value = 0 => columnInd = Number(0)
        /\ varColumn.value > Len(targetLine.text) + 1 =>
             columnInd = Number(Len(targetLine.text))

\* A column past the end of a non-empty line was clamped to the line's length.
C11_Witness ==
    /\ pc = "done"
    /\ varColumn.kind = "number"
    /\ Len(targetLine.text) > 0
    /\ varColumn.value > Len(targetLine.text) + 1
    /\ columnInd = Number(Len(targetLine.text))

\* C12: the shortcut columns resolve on the target line as H -> 0,
\* L -> lineLength, h -> the index of the first non-whitespace character,
\* l -> one past the index of the last non-whitespace character, with h and
\* l 0 when the line is empty or all whitespace; and 0 <= h <= l <= L on a
\* line that has a non-whitespace character.
C12_ShortcutColumns ==
    pc = "done" =>
        LET text == targetLine.text IN
        /\ varColumn.kind = "H" => columnInd = Number(0)
        /\ varColumn.kind = "L" => columnInd = Number(Len(text))
        /\ varColumn.kind = "h" =>
             columnInd = Number(IF NonBlankIndices(text) = {} THEN 0
                                ELSE Min(NonBlankIndices(text)))
        /\ varColumn.kind = "l" =>
             columnInd = Number(IF NonBlankIndices(text) = {} THEN 0
                                ELSE Max(NonBlankIndices(text)) + 1)
        /\ NonBlankIndices(text) # {} =>
             LET h == interpretColumn([kind |-> "h"], targetLine).value
                 l == interpretColumn([kind |-> "l"], targetLine).value
                 L == interpretColumn([kind |-> "L"], targetLine).value
             IN  0 <= h /\ h <= l /\ l <= L

\* 'l' was resolved on a line with whitespace on both sides of its text.
C12_Witness ==
    /\ pc = "done"
    /\ varColumn.kind = "l"
    /\ targetLine.text = <<" ", "a", " ">>
    /\ columnInd = Number(2)

\* The shortcut character that names the column a configuration defaults to.
ShortcutOf(c) ==
    CASE c.columnDefaultsTo = "startOfLine" -> "H"
      [] c.columnDefaultsTo = "endOfLine" -> "L"
      [] c.columnDefaultsTo = "firstNonWhitespaceCharacterOfLine" -> "h"
      [] c.columnDefaultsTo = "onePastLastNonWhitespaceCharacterOfLine" -> "l"

\* C13: when a position gives a line but no column, the column is the one
\* columnDefaultsTo selects: the input is accepted as a go-to and yields the
\* same target as the input followed by H, L, h or l respectively.
C13_ColumnDefault ==
    (/\ pc = "done"
     /\ syntaxTree # UndefinedVar
     /\ syntaxTree.kind = "startWithOptionalRangeEnd"
     /\ syntaxTree.end = UndefinedVar
     /\ syntaxTree.start.kind = "lineWithOptionalColumn"
     /\ syntaxTree.start.column = UndefinedVar) =>
        /\ target.kind = "goTo"
        /\ target = interpret(input \o <<ShortcutOf(config)>>, editor, config)

\* The column index a COLUMN variable names on a line text.
ExpectedColumn(column, text) ==
    CASE column.kind = "number" -> Number(Clamp(column.value - 1, 0, Len(text)))
      [] column.kind = "H" -> Number(0)
      [] column.kind = "L" -> Number(Len(text))
      [] column.kind = "h" -> Number(IF NonBlankIndices(text) = {} THEN 0
                                     ELSE Min(NonBlankIndices(text)))
      [] column.kind = "l" -> Number(IF NonBlankIndices(text) = {} THEN 0
                                     ELSE Max(NonBlankIndices(text)) + 1)

\* The parser accepted the input with a column-only start position.
ColumnOnlyStart ==
    /\ pc = "done"
    /\ syntaxTree # UndefinedVar
    /\ syntaxTree.kind = "startWithOptionalRangeEnd"
    /\ syntaxTree.start.kind = "columnOnly"

\* The position a column-only start names: the line of the primary cursor
\* (the active end of the primary selection) and the column on that line.
ColumnOnlyPosition ==
    LET cursorLine == editor.selection.active.line IN
    Position(cursorLine,
             ExpectedColumn(syntaxTree.start.column,
                            editor.document[cursorLine.value + 1]))

C15_TargetAssembly ==
    (/\ pc = "done"
     /\ syntaxTree # UndefinedVar
     /\ syntaxTree.kind = "startWithOptionalRangeEnd") =>
        IF syntaxTree.end = UndefinedVar
        THEN /\ target.kind = "goTo"
             /\ target.position.line.defined
             /\ target.position.character.defined
             /\ target.position =
                  interpretPosition(syntaxTree.start, editor, config).position
        ELSE /\ target.kind = "selection"
             /\ target.quick <=> syntaxTree.end.kind = "period"
             /\ ~target.quick <=> syntaxTree.end.kind = "doublePeriod"
             /\ ~target.quick =>
                  /\ target.selection.anchor =
                       interpretPosition(syntaxTree.start, editor, config).position
                  /\ target.selection.active =
                       interpretPosition(syntaxTree.end.position, editor, config).position

\* The inputs that may follow the ':' of a selection.
SecondInputs == Strings(SelectionChars, MaxInputLen)

\* C16: for any two inputs s1 and s2 that are each accepted as a go-to with
\* positions P1 and P2, the input s1 + ':' + s2 is accepted and yields an
\* exact (non-quick) selection with anchor P1 and active P2.
C16_ColonSelection ==
    (pc = "done" /\ target.kind = "goTo") =>
        \A s2 \in SecondInputs :
            LET second == interpret(s2, editor, config) IN
            second.kind = "goTo" =>
                interpret(input \o <<":">> \o s2, editor, config) =
                    [kind      |-> "selection",
                     selection |-> Selection(target.position, second.position),
                     quick     |-> FALSE]

\* C17: for a range-end-only input the selection's anchor before any quick
\* expansion is the anchor of the primary selection, also when the primary
\* selection is non-empty, and its active is the resolved range-end position.
C17_RangeEndOnlyAnchor ==
    (/\ pc = "done"
     /\ syntaxTree # UndefinedVar
     /\ syntaxTree.kind = "rangeEndOnly"
     /\ target.kind = "selection") =>
        IF target.quick
        THEN target.selection.anchor.line = editor.selection.anchor.line
        ELSE /\ target.selection.anchor = editor.selection.anchor
             /\ target.selection.active =
                  interpretPosition(syntaxTree.end.position, editor, config).position

\* The length of a line of the editor's document.
LineLength(line) == Len(editor.document[line.value + 1])

\* C18: quick selection, forward or same line.  When the end line is greater
\* than or equal to the start line, the selection's anchor is (start line, 0)
\* and its active is (end line, length of end line), whatever the columns of
\* the two positions.
C18_QuickForward ==
    (pc = "done" /\ endPos.line.value >= startPos.line.value) =>
        /\ quickSel.anchor = Position(startPos.line, Number(0))
        /\ quickSel.active = Position(endPos.line, Number(LineLength(endPos.line)))

\* Start and end on the same non-empty line, the start column after the end
\* column, and the selection runs from column 0 to the line's length.
C18_Witness ==
    /\ pc = "done"
    /\ endPos.line = startPos.line
    /\ startPos.character.value > endPos.character.value
    /\ quickSel.anchor.character = Number(0)
    /\ quickSel.active.character.value > startPos.character.value

\* C19 as the specification words it: quick selection, backward.  When the
\* end line is strictly smaller than the start line, the selection's anchor
\* is the end of the earlier line and its active is the start of the later
\* line.
C19_BackwardEarlierLineEnd ==
    (pc = "done" /\ endPos.line.value < startPos.line.value) =>
        /\ quickSel.anchor = Position(endPos.line, Number(LineLength(endPos.line)))
        /\ quickSel.active = Position(startPos.line, Number(0))

\* C19: quick selection, backward.  When the end line is strictly smaller
\* than the start line, the selection's anchor is the end of the start line
\* (the later line) and its active is the start of the end line (the
\* earlier line).
C19_QuickBackward ==
    (pc = "done" /\ endPos.line.value < startPos.line.value) =>
        /\ quickSel.anchor = Position(startPos.line, Number(LineLength(startPos.line)))
        /\ quickSel.active = Position(endPos.line, Number(0))

\* A backward quick selection between two non-empty lines.
C19_Witness ==
    /\ pc = "done"
    /\ endPos.line.value < startPos.line.value
    /\ LineLength(startPos.line) > 0
    /\ LineLength(endPos.line) > 0
    /\ quickSel.anchor.line = startPos.line
    /\ quickSel.anchor.character.value > 0

\* p is before or at q in the document.
IsBeforeOrEqual(p, q) ==
    \/ p.line.value < q.line.value
    \/ p.line.value = q.line.value /\ p.character.value <= q.character.value

\* The start and the end of the range of a selection.
RangeStart(sel) == IF IsBeforeOrEqual(sel.anchor, sel.active) THEN sel.anchor ELSE sel.active

RangeEnd(sel) == IF IsBeforeOrEqual(sel.anchor, sel.active) THEN sel.active ELSE sel.anchor

\* C20: quick selection full-line coverage.  For every pair of positions, in
\* either direction, the range of the quick selection starts at character 0
\* of the smaller of the two lines and ends at the line length of the larger
\* of the two lines.
C20_QuickFullLines ==
    pc = "done" =>
        LET first == IF startPos.line.value <= endPos.line.value
                     THEN startPos.line ELSE endPos.line
            last  == IF startPos.line.value <= endPos.line.value
                     THEN endPos.line ELSE startPos.line
        IN  /\ RangeStart(quickSel) = Position(first, Number(0))
            /\ RangeEnd(quickSel) = Position(last, Number(LineLength(last)))

\* A backward quick selection from inside one non-empty line to inside
\* another: its range starts at its active end.
C20_Witness ==
    /\ pc = "done"
    /\ endPos.line.value < startPos.line.value
    /\ endPos.character.value > 0
    /\ startPos.character.value < LineLength(startPos.line)
    /\ RangeStart(quickSel) = quickSel.active
    /\ RangeStart(quickSel) # endPos
    /\ RangeEnd(quickSel) # startPos

\* The separator characters and the sign characters of an input.
Separators == {",", ":"}

Signs == {"+", "-"}

Digits == {"0", "1", "2", "3", "4", "5", "6", "7", "8", "9"}

\* The input ends with a separator.
EndsWithSeparator(s) == s # <<>> /\ s[Len(s)] \in Separators

\* The input has two separators next to each other.
HasAdjacentSeparators(s) ==
    \E i \in 1..(Len(s) - 1) : s[i] \in Separators /\ s[i + 1] \in Separators

\* The input has a sign character right after a digit.
HasSignAfterNumber(s) ==
    \E i \in 1..(Len(s) - 1) : s[i] \in Digits /\ s[i + 1] \in Signs

\* The strings got from s by writing ':' for some of its ','.
ColonVariants(s) ==
    {[i \in 1..Len(s) |-> IF i \in S THEN ":" ELSE s[i]] :
        S \in SUBSET {i \in 1..Len(s) : s[i] = ","}}

Rejects(s) ==
    \/ ~tokenize(s).defined
    \/ parse(tokenize(s)).syntaxTree = UndefinedVar

\* A step of interpret goes to the next stage, or returns `undefined` at
\* once when the stage rejected, leaving the later stages' results untouched.
ShortCircuitStep ==
    /\ pc = "tokenize" =>
         IF tokenStream'.defined
         THEN pc' = "parse" /\ target' = target
         ELSE pc' = "done" /\ target' = UndefinedTarget
    /\ pc = "tokenize" => syntaxTree' = syntaxTree
    /\ pc = "parse" =>
         IF syntaxTree' # UndefinedVar
         THEN pc' = "interpretTarget" /\ target' = target
         ELSE pc' = "done" /\ target' = UndefinedTarget
    /\ pc = "interpretTarget" => pc' = "done" /\ syntaxTree' = syntaxTree
    /\ pc = "done" => UNCHANGED vars

\* C22: interpret returns rejected (the value `undefined`, not an exception)
\* exactly when tokenize rejects or parse rejects, in that order and without
\* running a later stage: parse is not called after a lexical rejection and
\* interpretTarget is not called after a syntactic rejection.
C22_RejectionShortCircuits ==
    /\ [][ShortCircuitStep]_vars
    /\ [](pc = "done" =>
            /\ target = UndefinedTarget <=> Rejects(input)
            /\ Rejects(input) => target # ThrownTarget
            /\ ~tokenStream.defined => syntaxTree = UndefinedVar)

\* parse rejected the tokens of an input that tokenize accepted.
C22_Witness ==
    /\ pc = "done"
    /\ input # <<>>
    /\ tokenStream.defined
    /\ tokenStream.rawTokens # <<>>
    /\ syntaxTree = UndefinedVar
    /\ target = UndefinedTarget

\* The other separator character.
OtherSeparator(c) == IF c = "," THEN ":" ELSE ","

\* The strings got from s by exchanging ',' and ':' at some of the places
\* where it has one of them.
SeparatorVariants(s) ==
    {[i \in 1..Len(s) |-> IF i \in S THEN OtherSeparator(s[i]) ELSE s[i]] :
        S \in SUBSET {i \in 1..Len(s) : s[i] \in Separators}}

C24_MinusThenWhitespace ==
    pc # "tokenize" =>
        \A k \in 2..Len(input) :
            LET gap == SubSeq(input, 2, k)
                run == SubSeq(input, k + 1, Len(input))
            IN  (Head(input) = "-" /\ IsBlank(gap) /\ IsDigits(run)) =>
                    /\ tokenStream.defined
                    /\ tokenStream.rawTokens =
                         <<[kind |-> "negativeNumber", magnitude |-> DecimalValue(run)]>>

\* The parser accepted the input with a range end whose position has a
\* minus-prefixed line term.
RelativeRangeEnd ==
    /\ pc = "done"
    /\ syntaxTree # UndefinedVar
    /\ syntaxTree.end # UndefinedVar
    /\ syntaxTree.end.position.kind = "lineWithOptionalColumn"
    /\ syntaxTree.end.position.line.kind = "negativeNumber"

\* C25: a relative (minus-prefixed) line term inside a range end resolves
\* against the reference activeRelativeTo chooses: the resolved start
\* position's line when set to the anchor, the live cursor's line when set
\* to the cursor.  So the end of the selection lies on one of the two lines
\* "reference line minus m", clamped into the document.
C25_RangeEndRelativeTo ==
    RelativeRangeEnd =>
        /\ target.kind = "selection"
        /\ LET m       == syntaxTree.end.position.line.value
               lastLine == Len(editor.document) - 1
               cursor   == editor.selection.active.line.value
               start    == target.selection.anchor.line.value
           IN  target.selection.active.line \in
                   {Number(Clamp(start - m, 0, lastLine)),
                    Number(Clamp(cursor - m, 0, lastLine))}

\* The token at the cursor of a token stream, EOF when it is exhausted.
CurrentToken(ts) == IF ts.i < Len(ts.rawTokens) THEN ts.rawTokens[ts.i + 1] ELSE EOF

\* A call of peek or pop returns the current token; peek leaves the cursor
\* alone; pop advances it by exactly one, except on an exhausted stream,
\* where it leaves it alone.  No call touches the tokens or moves the cursor
\* back.
TokenStreamCall ==
    /\ tokenStream'.rawTokens = tokenStream.rawTokens
    /\ tokenStream'.i >= tokenStream.i
    /\ log' # log =>
         LET call == log'[Len(log')] IN
         /\ call.token = CurrentToken(tokenStream)
         /\ call.op = "peek" => tokenStream'.i = tokenStream.i
         /\ call.op = "pop" =>
              tokenStream'.i = IF tokenStream.i < Len(tokenStream.rawTokens)
                               THEN tokenStream.i + 1
                               ELSE tokenStream.i

\* C26: TokenStream cursor.  peek never changes the cursor and returns the
\* current token, or EOF when exhausted; pop returns the token peek would
\* have returned and advances the cursor by exactly one, except when
\* exhausted, where it returns EOF and leaves the cursor unchanged; after any
\* sequence of peek and pop calls the cursor stays in [0, number of tokens],
\* never decreases, and hasTokensRemaining is true exactly when the cursor is
\* below the number of tokens.
C26_TokenStreamCursor ==
    /\ [][TokenStreamCall]_vars
    /\ [](/\ tokenStream.i \in 0..Len(tokenStream.rawTokens)
          /\ hasTokensRemaining(tokenStream) <=>
                tokenStream.i < Len(tokenStream.rawTokens)
          /\ pop(tokenStream).token = peek(tokenStream))

\* A non-empty stream was popped to its end and then popped twice more: both
\* calls returned EOF and the cursor stayed at the number of tokens.
C26_Witness ==
    /\ pc = "tokenStream"
    /\ Len(tokenStream.rawTokens) >= 2
    /\ tokenStream.i = Len(tokenStream.rawTokens)
    /\ Len(log) >= 2
    /\ log[Len(log)] = [op |-> "pop", token |-> EOF]
    /\ log[Len(log) - 1] = [op |-> "pop", token |-> EOF]

\* A dialog event (an input change or an accept) was handled in this step,
\* with a value interpret rejects.
RejectedEvent(callback) ==
    /\ controller'.events = controller.events + 1
    /\ controller'.trace # <<>>
    /\ controller'.trace[1] = callback
    /\ controller'.returned.callback = callback
    /\ Rejects(input')

\* C27: a rejected input never changes the document selection and never
\* schedules or performs a viewport change: validate of a rejected input
\* leaves no queued reveal and no highlight, calls revealRange not once and
\* returns ok: false; onDidAccept of a rejected input returns false, the dialog
\* stays open, and it queues and reveals nothing.
C27_RejectedInputChangesNothing ==
    [][/\ RejectedEvent("validate") =>
            /\ editor' = editor
            /\ controller'.delayer.timeouts = {}
            /\ controller'.highlights = UndefinedVar
            /\ controller'.reveals = controller.reveals
            /\ controller'.visibleRange = controller.visibleRange
            /\ controller'.returned = Returned("validate", FALSE)
            /\ controller'.open
       /\ RejectedEvent("onDidAccept") =>
            /\ editor' = editor
            /\ controller'.returned = Returned("onDidAccept", FALSE)
            /\ controller'.open
            /\ controller'.delayer = controller.delayer
            /\ controller'.highlights = controller.highlights
            /\ controller'.reveals = controller.reveals
            /\ controller'.visibleRange = controller.visibleRange]_vars

\* validate rejected an input after a target had been revealed and highlighted.
C27_Witness ==
    /\ pc = "controller"
    /\ controller.returned = Returned("validate", FALSE)
    /\ Rejects(input)
    /\ controller.reveals > 0
    /\ controller.highlights = UndefinedVar
    /\ controller.delayer.timeouts = {}

\* The pop() calls made so far.
PopCalls == SelectSeq(log, LAMBDA call : call.op = "pop")

\* A step of parse moves the cursor forward or not at all, and reads the
\* token stream at most once, at the cursor: the token it sees is the current
\* one, never one further ahead or one already consumed.
OneTokenLookaheadStep ==
    /\ tokenStream'.rawTokens = tokenStream.rawTokens
    /\ tokenStream'.i >= tokenStream.i
    /\ \/ log' = log
       \/ /\ Len(log') = Len(log) + 1
          /\ SubSeq(log', 1, Len(log)) = log
          /\ log'[Len(log')].i = tokenStream.i
          /\ log'[Len(log')].token =
                IF tokenStream.i < Len(tokenStream.rawTokens)
                THEN tokenStream.rawTokens[tokenStream.i + 1]
                ELSE EOF

\* C28: the parser never backtracks: the cursor of the token stream never
\* decreases, every token is popped at most once (no two pop() calls at the
\* same cursor position below the end), every step reads only the current
\* token and only once, at most (number of tokens + 1) pop() calls are made,
\* and parse terminates on every token sequence.
C28_NoBacktracking ==
    /\ [][OneTokenLookaheadStep]_vars
    /\ [](/\ \A j, k \in 1..Len(PopCalls) :
                j # k => PopCalls[j].i # PopCalls[k].i
          /\ Len(PopCalls) <= Len(tokenStream.rawTokens) + 1
          /\ tokenStream.i <= Len(tokenStream.rawTokens))
    /\ <>(pc = "done")

\* parse accepted a stream of at least three tokens: each was popped once,
\* after having been peeked at.
C28_Witness ==
    /\ pc = "done"
    /\ syntaxTree # UndefinedVar
    /\ Len(tokenStream.rawTokens) >= 3
    /\ Len(PopCalls) = Len(tokenStream.rawTokens)
    /\ Len(log) > Len(PopCalls)

\* FIRST of a variable of the grammar: the kinds its derivations start with.
First(variable) == {s[1] : s \in {d \in variable : d # <<>>}}

\* The labels of a parse function, across its productions.
Labels(fn) == UNION {caseLabels[fn][production] : production \in DOMAIN caseLabels[fn]}

\* The peek() calls that made fn take its production for the empty string.
EmptyChosenBy(fn, kind) ==
    \E k \in 1..Len(log) :
        log[k].op = "peek" /\ log[k].by = fn /\ log[k].token.kind = kind

\* In every parse function the case labels of different productions are
\* pairwise disjoint.
LabelsPairwiseDisjoint ==
    \A fn \in DOMAIN caseLabels :
        \A p, q \in DOMAIN caseLabels[fn] :
            p # q => caseLabels[fn][p] \cap caseLabels[fn][q] = {}

\* The case labels are the FIRST sets of the grammar, and the FOLLOW sets
\* {EOF} of OPTIONAL_RANGE_END and {'.', '..', EOF} of OPTIONAL_COLUMN for
\* the productions of the empty string.
LabelsAreFirstAndFollowSets ==
    /\ caseLabels.parseTarget.position = First(POSITION)
    /\ caseLabels.parseTarget.rangeEnd = First(RANGE_END)
    /\ Labels("parseTarget") = First(TARGET)
    /\ caseLabels.parseOptionalRangeEnd.rangeEnd = First(RANGE_END)
    /\ caseLabels.parseOptionalRangeEnd.rangeEnd = First(OPTIONAL_RANGE_END)
    /\ caseLabels.parseOptionalRangeEnd.empty = {"EOF"}
    /\ caseLabels.parseRangeEnd.period = {"period"}
    /\ caseLabels.parseRangeEnd.doublePeriod = {"doublePeriod"}
    /\ Labels("parseRangeEnd") = First(RANGE_END)
    /\ caseLabels.parsePosition.line = First(LINE)
    /\ caseLabels.parsePosition.column = First(COLUMN)
    /\ Labels("parsePosition") = First(POSITION)
    /\ Labels("parseLine") = First(LINE)
    /\ caseLabels.parseOptionalColumn.column = First(OPTIONAL_COLUMN)
    /\ caseLabels.parseOptionalColumn.empty = {"period", "doublePeriod", "EOF"}
    /\ caseLabels.parseOptionalColumn.empty = First(OPTIONAL_RANGE_END) \cup {"EOF"}
    /\ Labels("parseColumn") = First(COLUMN)

\* C29: the grammar is LL(1) as implemented: in every parse function the
\* case labels of different productions are pairwise disjoint; they are the
\* FIRST sets of the grammar, with FOLLOW = {EOF} selecting the empty
\* production of OPTIONAL_RANGE_END and FOLLOW = {'.', '..', EOF} that of
\* OPTIONAL_COLUMN, each disjoint from the variable's FIRST set; and the
\* parser these labels drive accepts exactly the sentences of TARGET.
C29_GrammarIsLL1 ==
    /\ LabelsPairwiseDisjoint
    /\ LabelsAreFirstAndFollowSets
    /\ pc = "done" =>
          (syntaxTree # UndefinedVar <=> Kinds(tokenStream.rawTokens) \in TARGET)

\* parse accepted a stream in which the empty production of OPTIONAL_COLUMN
\* was selected twice by its FOLLOW set: on a period and on EOF.
C29_Witness ==
    /\ pc = "done"
    /\ syntaxTree # UndefinedVar
    /\ \/ EmptyChosenBy("parseOptionalColumn", "period")
       \/ EmptyChosenBy("parseOptionalColumn", "doublePeriod")
    /\ EmptyChosenBy("parseOptionalColumn", "EOF")

\* A parse function has just returned Err to the running function.
ErrReturned == pc = "parseSteps" /\ ret # UndefinedVar /\ ~ret.ok

\* The step after a function returned Err: the running function reads no
\* token, leaves the cursor alone and returns the Err to its own caller (or,
\* in parse, returns undefined).
ErrPropagationStep ==
    ErrReturned =>
        /\ log' = log
        /\ tokenStream' = tokenStream
        /\ ret' = ret
        /\ IF Len(stack) = 1
           THEN pc' = "done" /\ stack' = <<>> /\ syntaxTree' = UndefinedVar
           ELSE pc' = "parseSteps" /\ stack' = SubSeq(stack, 1, Len(stack) - 1)

\* C30: rejection short-circuits: once a parse function has returned Err, no
\* enclosing function peeks or pops another token and each returns Err in
\* its turn, so parse returns undefined with the cursor where the failing
\* function left it.
C30_ErrShortCircuits ==
    /\ [][ErrPropagationStep]_vars
    /\ [](/\ ErrReturned => ret.tokenStream = tokenStream
          /\ (pc = "done" /\ ~ret.ok) =>
                /\ syntaxTree = UndefinedVar
                /\ tokenStream = ret.tokenStream)

\* A function failed three calls deep with tokens left in the stream.
C30_Witness ==
    /\ ErrReturned
    /\ Len(stack) >= 3
    /\ Len(log) >= 3
    /\ hasTokensRemaining(tokenStream)

\* The kinds of the tokens of a run of k adjacent periods, read greedily.
PeriodKinds(k) ==
    [j \in 1..((k + 1) \div 2) |-> IF 2 * j <= k THEN "doublePeriod" ELSE "period"]

\* The characters a + 1 .. b of s are a maximal run of periods.
IsPeriodRun(s, a, b) ==
    /\ a < b
    /\ \A i \in (a + 1)..b : s[i] = "."
    /\ a > 0 => s[a] # "."
    /\ b < Len(s) => s[b + 1] # "."

\* C31: periods are tokenized greedily left to right: a maximal run of k
\* adjacent '.' yields floor(k/2) doublePeriod tokens, followed by one period
\* token when k is odd, between the tokens of what precedes and what follows
\* the run; so '.' alone is a period and '..' one doublePeriod, never two
\* periods.
C31_PeriodsGreedy ==
    pc # "tokenize" =>
        \A a \in 0..Len(input) : \A b \in a..Len(input) :
            IsPeriodRun(input, a, b) =>
                LET before == tokenize(SubSeq(input, 1, a))
                    after  == tokenize(SubSeq(input, b + 1, Len(input)))
                IN  /\ tokenStream.defined <=> (before.defined /\ after.defined)
                    /\ tokenStream.defined =>
                          Kinds(tokenStream.rawTokens) =
                              Kinds(before.rawTokens) \o PeriodKinds(b - a)
                                  \o Kinds(after.rawTokens)

\* An input with a run of three periods was tokenized: a doublePeriod and
\* then a period.
C31_Witness ==
    /\ pc # "tokenize"
    /\ tokenStream.defined
    /\ \E a \in 0..(Len(input) - 3) : IsPeriodRun(input, a, a + 3)
    /\ \E j \in 1..(Len(tokenStream.rawTokens) - 1) :
          /\ tokenStream.rawTokens[j].kind = "doublePeriod"
          /\ tokenStream.rawTokens[j + 1].kind = "period"

\* C32: a range end that gives only a column resolves its line to the line
\* of the primary cursor, not to the line of the start position written
\* before it: for a start with a line term followed by a column-only range
\* end, interpret yields a selection whose active line is the cursor's line.
C32_ColumnOnlyRangeEnd ==
    (/\ pc = "done"
     /\ syntaxTree # UndefinedVar
     /\ syntaxTree.kind = "startWithOptionalRangeEnd"
     /\ syntaxTree.start.kind = "lineWithOptionalColumn"
     /\ syntaxTree.end # UndefinedVar
     /\ syntaxTree.end.position.kind = "columnOnly") =>
        /\ target.kind = "selection"
        /\ target.selection.active.line = editor.selection.active.line

\* C33: the Delayer holds at most one pending action.  At most one timeout is
\* pending after any sequence of queue, clear and dispose calls, and a callback
\* fires only when the queue call that queued it is the last thing that
\* happened to the Delayer: no later queue, clear or dispose call and no
\* earlier firing of it lies in between.  So queue cancels the callback queued
\* before, and nothing queued before a clear or dispose ever fires.
C33_OnePendingAction ==
    pc = "delayer" =>
        /\ Cardinality(delayer.timeouts) <= 1
        /\ \A k \in 1..Len(log) :
               log[k].op = "fire" =>
                   /\ k > 1
                   /\ log[k - 1] = [op |-> "queue", id |-> log[k].id]

\* A second queue call replaced a pending callback, the new callback fired,
\* and a third one was queued and then cleared.
C33_Witness ==
    /\ pc = "delayer"
    /\ Len(log) = 5
    /\ log[1].op = "queue"
    /\ log[2].op = "queue"
    /\ log[3] = [op |-> "fire", id |-> 2]
    /\ log[4].op = "queue"
    /\ log[5].op = "clear"
    /\ delayer.timeouts = {}
    /\ delayer.timer = Timeout(3)

\* An event was handled in this step.
EventHandled(event) ==
    /\ controller'.events = controller.events + 1
    /\ controller'.event = event

\* C34: once the dialog has closed, by an accepted input, an Escape keypress or
\* focus change, a selection change or Controller.dispose, no reveal is pending
\* in the Delayer and no highlight is left, and from then on no reveal is made
\* and the viewport stays where the closing step left it, whatever events and
\* timeouts follow.
C34_ClosedLeavesNothing ==
    [][(pc = "controller" /\ ~controller'.open) =>
            /\ controller'.delayer.timeouts = {}
            /\ controller'.highlights = UndefinedVar
            /\ ~controller.open =>
                   /\ controller'.reveals = controller.reveals
                   /\ controller'.visibleRange = controller.visibleRange]_vars

\* The dialog was hidden by a change of focus while the reveal the first input
\* change had queued was pending: the only reveal made is the restoring one.
C34_Witness ==
    /\ pc = "controller"
    /\ ~controller.open
    /\ controller.event = "hide"
    /\ controller.events = 2
    /\ controller.delayer.created = 1
    /\ controller.cursors = 2
    /\ controller.reveals = 1
    /\ controller.delayer.timeouts = {}

\* C35: the close protocol of the dialog.  A hiding of the input box runs
\* onDidHideViaEscapeOrFocusChange and then close, once each; a selection change
\* while the dialog is open runs onDidHideViaSelectionInterrupt and then close,
\* once each; an accepted input runs onDidAccept and then close and neither of
\* the two hide callbacks, and the selection change event of the selection
\* onDidAccept has set arrives at a closed dialog and runs no callback; close
\* never triggers the hide listener, and a closed dialog stays closed.
C35_CloseProtocol ==
    [][pc = "controller" =>
        /\ EventHandled("hide") =>
               /\ controller'.trace = <<"onDidHideViaEscapeOrFocusChange", "close">>
               /\ ~controller'.open
        /\ (EventHandled("selectionChange") /\ controller.open) =>
               /\ controller'.trace = <<"onDidHideViaSelectionInterrupt", "close">>
               /\ ~controller'.open
        /\ (EventHandled("accept") /\ controller'.returned = Returned("onDidAccept", TRUE)) =>
               /\ controller'.trace = <<"onDidAccept", "close">>
               /\ ~controller'.open
               /\ controller'.selectionChangeInFlight
        /\ (EventHandled("accept") /\ controller'.returned # Returned("onDidAccept", TRUE)) =>
               /\ controller'.trace = <<"onDidAccept">>
               /\ controller'.open
        /\ (EventHandled("selectionChange") /\ ~controller.open) =>
               controller'.trace = <<>>
        /\ \A k \in 1..Len(controller'.trace) : controller'.trace[k] # "onDidHideListener"
        /\ ~controller.open => ~controller'.open]_vars

\* The selection change event of the selection an accepted input has set
\* arrived after the dialog had closed, and no callback ran.
C35_Witness ==
    /\ pc = "controller"
    /\ ~controller.open
    /\ controller.event = "selectionChange"
    /\ controller.trace = <<>>
    /\ controller.returned = Returned("onDidAccept", TRUE)
    /\ ~controller.selectionChangeInFlight

\* The height of a range.
Height(range) == range.end - range.start

\* C36: rangeCanFitWithinViewport is true exactly when the range is not taller
\* than the viewport, so that validate queues the centred reveal for a selection
\* that is not fully visible exactly when it is not taller than the viewport.
C36_CanFitIffNotTaller ==
    pc = "controller" =>
        /\ \A range \in VisibleRanges(ControllerDocument) :
               rangeCanFitWithinViewport(controller.visibleRange, range)
                   <=> Height(range) <= Height(controller.visibleRange)
        /\ \A timeout \in controller.delayer.timeouts :
               timeout.callback.target.kind = "selection" =>
                   (timeout.callback.revealType = "InCenter"
                       <=> Height(rangeOf(timeout.callback.target))
                               <= Height(controller.visibleRange))

\* C37: a new revealLocation or revealSelection call cancels a reveal that has
\* not run yet: the only timeout that can be pending is the one the last call
\* has set.  clear(true) restores the initial vertical viewport and then
\* reveals the primary selection exactly when the editor has one selection.
C37_RevealerCancelsAndRestores ==
    pc = "revealer" =>
        /\ \A t \in revealer.timeouts : revealer.viewportChangeTimer = Timeout(t.id)
        /\ revealer.call \in {"revealLocation", "revealSelection"} =>
               \A t \in revealer.timeouts : t.id = revealer.created
        /\ revealer.call = "clear(true)" =>
               LET restoring == [range |-> revealer.initialVisibleRange,
                                 revealType |-> "AtTop"]
                   primary   == [range |-> revealer.selection, revealType |-> "Default"]
               IN  revealer.revealed =
                       IF revealer.selections = 1
                       THEN <<restoring, primary>>
                       ELSE <<restoring>>

\* The transitions of the table out of a state that a token matches.
Applicable(source, token) ==
    {k \in 1..Len(TRANSITIONS) :
        TRANSITIONS[k].source = source /\ token \in TRANSITIONS[k].condition}

\* No state has two transitions out of it that one token matches.
TableIsDeterministic ==
    \A k \in 1..Len(TRANSITIONS) : \A token \in TRANSITIONS[k].condition :
        Cardinality(Applicable(TRANSITIONS[k].source, token)) = 1

\* C38: the finite automation is deterministic: no state of the TRANSITIONS
\* table has two transitions that one token matches, the coordinate separator
\* and the quick-select separator are different characters, and an advance
\* call that rejects its token leaves the current state and the intent as
\* they were.
C38_AutomatonDeterministic ==
    [][pc = "finiteAutomation" =>
        /\ TableIsDeterministic
        /\ TERMINAL.COORDINATE_SEPARATOR # TERMINAL.QUICK_SELECT_SEPARATOR
        /\ finiteAutomation'.returned = "false" =>
               /\ finiteAutomation'.currentState = finiteAutomation.currentState
               /\ finiteAutomation'.intent = finiteAutomation.intent]_vars
====
